---- MODULE Spec2Model ----
(***************************************************************************)
(* A model of the legal-ingest pipeline: processFile                       *)
(* (src/services/pipelineService.ts) driving one ProcessedFile through its *)
(* five steps, publishing snapshots through onUpdate, with the extraction  *)
(* service (src/services/geminiService.ts) and the Qdrant client as its    *)
(* collaborators.                                                          *)
(*                                                                         *)
(* Strings are kept run-length encoded: a text is a sequence of runs       *)
(* [ch, n] (n >= 1, adjacent runs of different characters), so that texts  *)
(* of tens of thousands of characters stay small.  JavaScript objects live *)
(* in two heaps (objs: ProcessedFile objects, arrays: chunk arrays), so    *)
(* that sharing between published snapshots is part of the state.          *)
(*                                                                         *)
(* Every onUpdate call is recorded in `published` with the object's own    *)
(* fields as they were at the call.  The chunk arrays as they were at the  *)
(* call are kept in `seenChunks` for the calls of the latest step and the  *)
(* one call before them: every call is among these in the state right      *)
(* after the step that made it.                                            *)
(***************************************************************************)
EXTENDS Integers, Sequences, FiniteSets, TLC

VARIABLES
    pc,             \* position of the processFile invocation (the await it is suspended at)
    objs,           \* heap of ProcessedFile objects; objs[1] is fileToProcess
    arrays,         \* heap of chunk arrays; arrays[1] is fileToProcess.chunks
    cur,            \* currentFileState: an index into objs
    published,      \* the onUpdate calls so far: <<[ref, file]>>, file the object's fields then
    seenChunks,     \* the chunk arrays as they were at the latest of these calls
    extractedText,  \* local const extractedText (line 39)
    cleanedText,    \* local const cleanedText (line 48)
    j,              \* the embedding loop's index (line 88)
    points,         \* local const points (line 130)
    i,              \* the upsert loop's offset (line 146)
    config,         \* the arguments qdrantUrl, qdrantApiKey, collectionName
    env,            \* the extraction service's environment (API key set or not)
    backend,        \* how the call of ai.models.generateContent ended: "none" before,
                    \* "notCalled", "text", "noText" or "rejected"
    store,          \* the Qdrant cluster: collection name -> set of point ids
    calls,          \* the Qdrant client calls issued so far
    thrown,         \* whether the catch block ran, what it caught, and the number of
                    \* onUpdate calls made before it ran
    promise,        \* the returned promise: "none", "pending", "resolved", "rejected"
    \* the driver (App.tsx)
    files,          \* useState files: the jobs in list order, each [id, status]
    selectedFile,   \* useState selectedFile: <<>> for null, else <<job>>
    isProcessing,   \* useState isProcessing
    runs,           \* the handleProcessAll calls so far: what each captured at the click
                    \* and where its loop is
    invocations,    \* the processFile calls the driver has made, in order
    clock           \* Date.now()

pipelineVars == <<pc, objs, arrays, cur, published, seenChunks, extractedText, cleanedText, j,
                  points, i, backend, thrown, promise>>

driverVars == <<files, selectedFile, isProcessing, runs, invocations, clock>>

vars == <<pc, objs, arrays, cur, published, seenChunks, extractedText, cleanedText, j, points, i,
          config, env, backend, store, calls, thrown, promise,
          files, selectedFile, isProcessing, runs, invocations, clock>>

----------------------------------------------------------------------------
(* Program constants *)

CHUNK_SIZE == 1000
CHUNK_OVERLAP == 200
VECTOR_DIMENSION == 768
BATCH_SIZE == 100

(* Bounds of the model *)

\* the longest extracted text: long enough for more than BATCH_SIZE chunks
MaxTextLen == 80001
\* the most whitespace characters in one run of the short texts
MaxGap == 2

----------------------------------------------------------------------------
(* Strings *)

Min(a, b) == IF a < b THEN a ELSE b
Max(a, b) == IF a > b THEN a ELSE b

\* the characters matched by \s and removed by trim()
Whitespace == {" ", "\n", "\t"}

Run(c, n) == [ch |-> c, n |-> n]

RECURSIVE Length(_)
\* String.prototype.length
Length(t) == IF t = <<>> THEN 0 ELSE Head(t).n + Length(Tail(t))

RECURSIVE Slice(_, _, _)
\* the characters of t at the zero-based positions a .. b-1
Slice(t, a, b) ==
    IF t = <<>> \/ b <= 0 THEN <<>>
    ELSE LET h == Head(t)
             lo == Max(a, 0)
             hi == Min(b, h.n)
             rest == Slice(Tail(t), a - h.n, b - h.n)
         IN  IF hi > lo THEN <<Run(h.ch, hi - lo)>> \o rest ELSE rest

\* String.prototype.substring(start, end): both clamped to [0, length], swapped
\* when start > end
substring(t, start, end) ==
    LET len == Length(t)
        s == Min(Max(start, 0), len)
        e == Min(Max(end, 0), len)
    IN  Slice(t, Min(s, e), Max(s, e))

RECURSIVE DropLeadingWhitespace(_)
DropLeadingWhitespace(t) ==
    IF t # <<>> /\ Head(t).ch \in Whitespace THEN DropLeadingWhitespace(Tail(t)) ELSE t

RECURSIVE DropTrailingWhitespace(_)
DropTrailingWhitespace(t) ==
    IF t # <<>> /\ t[Len(t)].ch \in Whitespace
    THEN DropTrailingWhitespace(SubSeq(t, 1, Len(t) - 1))
    ELSE t

RECURSIVE ReplaceWhitespaceRuns(_)
\* replace(/\s+/g, ' '): every maximal run of whitespace becomes one space
ReplaceWhitespaceRuns(t) ==
    IF t = <<>> THEN <<>>
    ELSE IF Head(t).ch \in Whitespace
         THEN <<Run(" ", 1)>> \o ReplaceWhitespaceRuns(DropLeadingWhitespace(t))
         ELSE <<Head(t)>> \o ReplaceWhitespaceRuns(Tail(t))

\* String.prototype.trim()
trim(t) == DropTrailingWhitespace(DropLeadingWhitespace(t))

\* a variant of CleanText that does not trim
CleanTextUntrimmed(t) == ReplaceWhitespaceRuns(t)

\* line 48: extractedText.replace(/\s+/g, ' ').trim()
CleanText(t) == trim(ReplaceWhitespaceRuns(t))

----------------------------------------------------------------------------
(* Values *)

\* a formatted string: a template with the number and the name put into it
Str(fmt, num, name) == [fmt |-> fmt, num |-> num, name |-> name]

\* an optional property of an object: absent (undefined) or a value
Absent == [present |-> FALSE, value |-> Str("", 0, "")]
Present(v) == [present |-> TRUE, value |-> v]

\* string | null, and the undefined that response.text may be
NullText == [tag |-> "null", val |-> <<>>]
UndefinedText == [tag |-> "undefined", val |-> <<>>]
StringText(t) == [tag |-> "string", val |-> t]

\* a number[] of VECTOR_DIMENSION random entries (line 90); absent before
NoEmbedding == [present |-> FALSE, length |-> 0]
Embedding(n) == [present |-> TRUE, length |-> n]

\* thrown values: Error instances with a message, and anything else
ErrorOf(msg) == [isError |-> TRUE, message |-> msg]
NonError == [isError |-> FALSE, message |-> Str("", 0, "")]

\* line 102
ConfigurationError ==
    ErrorOf(Str("Qdrant URL, API Key, and Collection Name must be provided.", 0, ""))

\* the endpoints new QdrantClient({url, ...}) accepts: full URLs with a protocol
UrlsWithProtocol == {"https://qdrant.example"}

\* lines 105-109: what the client's constructor throws for any other endpoint
ClientConfigError ==
    ErrorOf(Str("The url param expects full URL with protocol.", 0, ""))

\* line 41: extractedText.length when generateLegalText resolved to undefined
NoTextError == ErrorOf(Str("Cannot read properties of undefined (reading 'length')", 0, ""))

\* the embedding collaborator's failure
EmbeddingError == ErrorOf(Str("embedding failed", 0, ""))

NothingThrown == [caught |-> FALSE, error |-> NonError, publishedBefore |-> 0]

StepNames == <<"Extract Text", "Clean Text", "Chunk Text", "Generate Embeddings",
               "Store in Qdrant">>

FileNames == {"a.pdf"}

\* the File objects the dropzone hands over
FileOf(name) == [name |-> name, webkitRelativePath |-> "", type |-> "application/pdf"]

\* `${file.name}-${Date.now()}-${index}`
JobId(name, now, index) == [name |-> name, now |-> now, index |-> index]

\* `${currentFileState.id}-chunk-${chunkIndex}`
ChunkId(id, chunkIndex) == [job |-> id, k |-> chunkIndex]

\* handleFilesAdded: the ProcessedFile built for a dropped file; chunks is a
\* reference into the heap of arrays
NewProcessedFile(file, now, index, chunksRef) ==
    [id |-> JobId(file.name, now, index),
     file |-> file,
     status |-> "pending",
     steps |-> [k \in 1..5 |-> [name |-> StepNames[k], status |-> "pending",
                                details |-> Absent]],
     chunks |-> chunksRef,
     extractedText |-> NullText,
     cleanedText |-> NullText,
     error |-> Absent]

----------------------------------------------------------------------------
(* The extraction service *)

\* the two fixed texts of generateLegalText: words separated by single spaces,
\* 925 and 910 characters plus the file name
PlaceholderText(prefixLen, nameLen) ==
    <<Run("w", prefixLen + nameLen), Run(" ", 1), Run("w", 800)>>

NameLength(name) == 5

\* the texts the Gemini model may answer with
ResponseTexts ==
    {<<>>}
    \cup {<<Run(" ", g)>> : g \in 1..MaxGap}
    \cup {<<Run("\n", g), Run("a", 2), Run(" ", g), Run("\t", 1), Run("b", 1), Run(" ", g)>> :
            g \in 1..MaxGap}
    \cup {<<Run("A", n)>> : n \in {1, 801, 2500, 3300, MaxTextLen}}

\* what ai.models.generateContent does: answers with a text, answers without
\* one (response.text is undefined), or rejects
Responses ==
    {[kind |-> "text", text |-> t] : t \in ResponseTexts}
    \cup {[kind |-> "noText", text |-> <<>>], [kind |-> "rejected", text |-> <<>>]}

\* generateLegalText(fileName): the value its promise resolves to
generateLegalText(fileName, apiKeySet, response) ==
    IF ~apiKeySet THEN StringText(PlaceholderText(124, NameLength(fileName)))
    ELSE IF response.kind = "rejected"
         THEN StringText(PlaceholderText(109, NameLength(fileName)))
         ELSE IF response.kind = "noText" THEN UndefinedText
              ELSE StringText(response.text)

\* generateLegalText, lines 16-29: whether generateContent is called, and how
\* the call ended
BackendOutcome(apiKeySet, response) ==
    IF ~apiKeySet THEN "notCalled" ELSE response.kind

----------------------------------------------------------------------------
(* The machine: the state the steps of processFile read and write *)

M == [pc |-> pc, objs |-> objs, arrays |-> arrays, cur |-> cur,
      published |-> published,
      seenChunks |-> IF seenChunks = <<>> THEN <<>> ELSE <<seenChunks[Len(seenChunks)]>>,
      extractedText |-> extractedText,
      cleanedText |-> cleanedText, j |-> j, points |-> points, i |-> i,
      backend |-> backend, store |-> store, calls |-> calls, thrown |-> thrown, promise |-> promise]

Commit(m) ==
    /\ pc' = m.pc
    /\ objs' = m.objs
    /\ arrays' = m.arrays
    /\ cur' = m.cur
    /\ published' = m.published
    /\ seenChunks' = m.seenChunks
    /\ extractedText' = m.extractedText
    /\ cleanedText' = m.cleanedText
    /\ j' = m.j
    /\ points' = m.points
    /\ i' = m.i
    /\ backend' = m.backend
    /\ store' = m.store
    /\ calls' = m.calls
    /\ thrown' = m.thrown
    /\ promise' = m.promise
    /\ UNCHANGED <<config, env>>
    /\ UNCHANGED driverVars

\* the object currentFileState refers to
Cur(m) == m.objs[m.cur]

\* a new object on the heap: an object literal or spread
Alloc(m, object) == [m EXCEPT !.objs = Append(@, object)]

\* currentFileState = <a new object>
Assign(m, object) ==
    [m EXCEPT !.objs = Append(@, object), !.cur = Len(m.objs) + 1]

\* an object as an observer reads it: its chunks followed into the array heap
Deref(os, as, ref) == [os[ref] EXCEPT !.chunks = as[os[ref].chunks]]

\* onUpdate(<the object at ref>): the driver's callback stores the reference
\* (App.tsx setFiles / setSelectedFile) and never throws
onUpdate(m, ref) ==
    [m EXCEPT !.published = Append(@, [ref |-> ref, file |-> m.objs[ref]]),
              !.seenChunks = Append(@, m.arrays[m.objs[ref].chunks])]

\* a variant of updateStepStatus that sets the job's status as well
updateStepStatusOfJobToo(file, stepName, status, details) ==
    [file EXCEPT !.status = status,
                 !.steps =
        [k \in DOMAIN file.steps |->
            IF file.steps[k].name = stepName
            THEN [file.steps[k] EXCEPT !.status = status, !.details = details]
            ELSE file.steps[k]]]

\* a variant of updateStepStatus with the name test inverted
updateStepStatusOfOthers(file, stepName, status, details) ==
    [file EXCEPT !.steps =
        [k \in DOMAIN file.steps |->
            IF file.steps[k].name # stepName
            THEN [file.steps[k] EXCEPT !.status = status, !.details = details]
            ELSE file.steps[k]]]

\* updateStepStatus: a new object with a new steps array, the matching steps
\* replaced by new step objects
updateStepStatus(file, stepName, status, details) ==
    [file EXCEPT !.steps =
        [k \in DOMAIN file.steps |->
            IF file.steps[k].name = stepName
            THEN [file.steps[k] EXCEPT !.status = status, !.details = details]
            ELSE file.steps[k]]]

\* currentFileState = updateStepStatus(currentFileState, ...); onUpdate(currentFileState)
SetStepAndPublish(m, stepName, status, details) ==
    LET m1 == Assign(m, updateStepStatus(Cur(m), stepName, status, details))
    IN  onUpdate(m1, m1.cur)

----------------------------------------------------------------------------
(* processFile: the catch block, lines 170-187 *)

\* line 171
errorMessageOf(error) ==
    IF error.isError THEN error.message ELSE Str("An unknown error occurred.", 0, "")

\* steps.find(s => s.status === 'in-progress'): the index of the first such
\* step, 0 when there is none
FindInProgress(steps) ==
    IF \E k \in DOMAIN steps : steps[k].status = "in-progress"
    THEN CHOOSE k \in DOMAIN steps :
            /\ steps[k].status = "in-progress"
            /\ \A l \in 1..(k - 1) : steps[l].status # "in-progress"
    ELSE 0

\* a variant of FinalState that, finding no step in-progress, marks the first
\* pending step failed
FinalStateFailsNextStep(file, error) ==
    LET errorMessage == errorMessageOf(error)
        inProgressStep == FindInProgress(file.steps)
        finalState == [file EXCEPT !.status = "failed", !.error = Present(errorMessage)]
        pending == {k \in DOMAIN file.steps : file.steps[k].status = "pending"}
    IN  IF inProgressStep # 0
        THEN updateStepStatus(finalState, file.steps[inProgressStep].name, "failed",
                              Present(errorMessage))
        ELSE IF pending # {}
             THEN updateStepStatus(finalState,
                                   file.steps[CHOOSE k \in pending : \A l \in pending : k <= l].name,
                                   "failed", Present(errorMessage))
             ELSE finalState

\* a variant of FinalState that leaves the error field as it was
FinalStateWithoutError(file, error) ==
    LET errorMessage == errorMessageOf(error)
        inProgressStep == FindInProgress(file.steps)
        finalState == [file EXCEPT !.status = "failed"]
    IN  IF inProgressStep # 0
        THEN updateStepStatus(finalState, file.steps[inProgressStep].name, "failed",
                              Present(errorMessage))
        ELSE finalState

\* a variant of FinalState that marks the step failed without the message
FinalStateWithoutDetails(file, error) ==
    LET errorMessage == errorMessageOf(error)
        inProgressStep == FindInProgress(file.steps)
        finalState == [file EXCEPT !.status = "failed", !.error = Present(errorMessage)]
    IN  IF inProgressStep # 0
        THEN updateStepStatus(finalState, file.steps[inProgressStep].name, "failed", Absent)
        ELSE finalState

\* lines 176-184: the object the catch block publishes
FinalState(file, error) ==
    LET errorMessage == errorMessageOf(error)
        inProgressStep == FindInProgress(file.steps)
        finalState == [file EXCEPT !.status = "failed", !.error = Present(errorMessage)]
    IN  IF inProgressStep # 0
        THEN updateStepStatus(finalState, file.steps[inProgressStep].name, "failed",
                              Present(errorMessage))
        ELSE finalState

\* a variant of the catch block that publishes the job with the chunk list it
\* came with
CatchDropsChunks(m, error) ==
    LET m1 == Alloc(m, [FinalState(Cur(m), error) EXCEPT !.chunks = m.objs[1].chunks])
        m2 == onUpdate(m1, Len(m1.objs))
    IN  [m2 EXCEPT !.thrown = [caught |-> TRUE, error |-> error,
                                   publishedBefore |-> Len(m.published)],
                   !.pc = "done", !.promise = "resolved"]

\* a variant of the catch block that rethrows after publishing
CatchRethrows(m, error) ==
    LET m1 == Alloc(m, FinalState(Cur(m), error))
        m2 == onUpdate(m1, Len(m1.objs))
    IN  [m2 EXCEPT !.thrown = [caught |-> TRUE, error |-> error,
                                   publishedBefore |-> Len(m.published)],
                   !.pc = "done", !.promise = "rejected"]

\* the catch block: one publish of finalState, and the async function returns
Catch(m, error) ==
    LET m1 == Alloc(m, FinalState(Cur(m), error))
        m2 == onUpdate(m1, Len(m1.objs))
    IN  [m2 EXCEPT !.thrown = [caught |-> TRUE, error |-> error,
                                   publishedBefore |-> Len(m.published)],
                   !.pc = "done", !.promise = "resolved"]

----------------------------------------------------------------------------
(* processFile: steps 1 to 3 *)

\* a variant of Invoked that sets the status on the job it was given
InvokedInPlace(m) ==
    LET m1 == [m EXCEPT !.objs[1].status = "in-progress"]
        m2 == SetStepAndPublish(m1, "Extract Text", "in-progress", Absent)
    IN  [m2 EXCEPT !.pc = "extract", !.promise = "pending"]

\* a variant of Invoked that copies the job with the status it came with
InvokedKeepsStatus(m) ==
    LET m1 == Assign(m, m.objs[1])
        m2 == SetStepAndPublish(m1, "Extract Text", "in-progress", Absent)
    IN  [m2 EXCEPT !.pc = "extract", !.promise = "pending"]

\* lines 32-39: up to the first await
Invoked(m) ==
    LET m1 == Assign(m, [m.objs[1] EXCEPT !.status = "in-progress"])
        m2 == SetStepAndPublish(m1, "Extract Text", "in-progress", Absent)
    IN  [m2 EXCEPT !.pc = "extract", !.promise = "pending"]

\* a variant of Extracted that goes on without marking Clean Text in-progress
ExtractedWithoutStartingClean(m, text) ==
    LET m1 == [m EXCEPT !.extractedText = text]
        m2 == Assign(m1, [Cur(m1) EXCEPT !.extractedText = text])
    IN  IF text.tag # "string"
        THEN Catch(m2, NoTextError)
        ELSE LET m3 == SetStepAndPublish(m2, "Extract Text", "completed",
                            Present(Str("%n chars extracted.", Length(text.val), "")))
             IN  [m3 EXCEPT !.pc = "clean"]

\* lines 39-47: generateLegalText has resolved to `text`
Extracted(m, text) ==
    LET m1 == [m EXCEPT !.extractedText = text]
        m2 == Assign(m1, [Cur(m1) EXCEPT !.extractedText = text])
    IN  IF text.tag # "string"
        THEN \* line 41: extractedText.length of undefined
             Catch(m2, NoTextError)
        ELSE LET m3 == SetStepAndPublish(m2, "Extract Text", "completed",
                            Present(Str("%n chars extracted.", Length(text.val), "")))
                 m4 == SetStepAndPublish(m3, "Clean Text", "in-progress", Absent)
             IN  [m4 EXCEPT !.pc = "clean"]

\* a variant of Cleaned that reports Clean Text completed before the cleaned
\* text is attached to the job
CleanedReportsBeforeAttaching(m) ==
    LET text == StringText(CleanText(m.extractedText.val))
        m1 == [m EXCEPT !.cleanedText = text]
        m2 == SetStepAndPublish(m1, "Clean Text", "completed", Absent)
        m3 == Assign(m2, [Cur(m2) EXCEPT !.cleanedText = text])
        m4 == SetStepAndPublish(m3, "Chunk Text", "in-progress", Absent)
    IN  [m4 EXCEPT !.pc = "chunk"]

\* a variant of Cleaned that starts Chunk Text without completing Clean Text
CleanedWithoutCompleting(m) ==
    LET text == StringText(CleanText(m.extractedText.val))
        m1 == [m EXCEPT !.cleanedText = text]
        m2 == Assign(m1, [Cur(m1) EXCEPT !.cleanedText = text])
        m4 == SetStepAndPublish(m2, "Chunk Text", "in-progress", Absent)
    IN  [m4 EXCEPT !.pc = "chunk"]

\* lines 48-56
Cleaned(m) ==
    LET text == StringText(CleanText(m.extractedText.val))
        m1 == [m EXCEPT !.cleanedText = text]
        m2 == Assign(m1, [Cur(m1) EXCEPT !.cleanedText = text])
        m3 == SetStepAndPublish(m2, "Clean Text", "completed", Absent)
        m4 == SetStepAndPublish(m3, "Chunk Text", "in-progress", Absent)
    IN  [m4 EXCEPT !.pc = "chunk"]

\* a variant of NewChunk whose window ends where the next one starts
NewChunkWithoutOverlap(file, text, start, chunkIndex) ==
    [id |-> ChunkId(file.id, chunkIndex),
     fileId |-> file.id,
     chunkIndex |-> chunkIndex + 1,
     text |-> substring(text, start, start + CHUNK_SIZE - CHUNK_OVERLAP),
     metadata |-> [file_name |-> file.file.name,
                   file_path |-> IF file.file.webkitRelativePath # ""
                                 THEN file.file.webkitRelativePath
                                 ELSE file.file.name,
                   file_type |-> file.file.type,
                   chunk_size |-> CHUNK_SIZE,
                   chunk_overlap |-> CHUNK_OVERLAP],
     embedding |-> NoEmbedding,
     embeddingStatus |-> "pending",
     storageStatus |-> "pending"]

\* a variant of NewChunk that numbers the ids as it numbers chunkIndex, from one
NewChunkNumberedFromOne(file, text, start, chunkIndex) ==
    [id |-> ChunkId(file.id, chunkIndex + 1),
     fileId |-> file.id,
     chunkIndex |-> chunkIndex + 1,
     text |-> substring(text, start, start + CHUNK_SIZE),
     metadata |-> [file_name |-> file.file.name,
                   file_path |-> IF file.file.webkitRelativePath # ""
                                 THEN file.file.webkitRelativePath
                                 ELSE file.file.name,
                   file_type |-> file.file.type,
                   chunk_size |-> CHUNK_SIZE,
                   chunk_overlap |-> CHUNK_OVERLAP],
     embedding |-> NoEmbedding,
     embeddingStatus |-> "pending",
     storageStatus |-> "pending"]

\* lines 63-77: the chunk pushed for the window starting at i
NewChunk(file, text, start, chunkIndex) ==
    [id |-> ChunkId(file.id, chunkIndex),
     fileId |-> file.id,
     chunkIndex |-> chunkIndex + 1,
     text |-> substring(text, start, start + CHUNK_SIZE),
     metadata |-> [file_name |-> file.file.name,
                   file_path |-> IF file.file.webkitRelativePath # ""
                                 THEN file.file.webkitRelativePath
                                 ELSE file.file.name,
                   file_type |-> file.file.type,
                   chunk_size |-> CHUNK_SIZE,
                   chunk_overlap |-> CHUNK_OVERLAP],
     embedding |-> NoEmbedding,
     embeddingStatus |-> "pending",
     storageStatus |-> "pending"]

RECURSIVE ChunkLoopStopsAtOverlap(_, _, _)
\* a variant of ChunkLoop that stops once the rest of the text is within the
\* overlap of the last window
ChunkLoopStopsAtOverlap(file, text, loop) ==
    IF loop.i + CHUNK_OVERLAP < Length(text)
    THEN ChunkLoopStopsAtOverlap(file, text,
                   [i |-> loop.i + CHUNK_SIZE - CHUNK_OVERLAP,
                    chunkIndex |-> loop.chunkIndex + 1,
                    chunks |-> Append(loop.chunks,
                                      NewChunk(file, text, loop.i, loop.chunkIndex))])
    ELSE loop.chunks

RECURSIVE ChunkLoopAdvancesBySize(_, _, _)
\* a variant of ChunkLoop that advances by the chunk size
ChunkLoopAdvancesBySize(file, text, loop) ==
    IF loop.i < Length(text)
    THEN ChunkLoopAdvancesBySize(file, text,
                   [i |-> loop.i + CHUNK_SIZE,
                    chunkIndex |-> loop.chunkIndex + 1,
                    chunks |-> Append(loop.chunks,
                                      NewChunk(file, text, loop.i, loop.chunkIndex))])
    ELSE loop.chunks

RECURSIVE ChunkLoopThroughEnd(_, _, _)
\* a variant of ChunkLoop whose test is i <= cleanedText.length
ChunkLoopThroughEnd(file, text, loop) ==
    IF loop.i <= Length(text)
    THEN ChunkLoopThroughEnd(file, text,
                   [i |-> loop.i + CHUNK_SIZE - CHUNK_OVERLAP,
                    chunkIndex |-> loop.chunkIndex + 1,
                    chunks |-> Append(loop.chunks,
                                      NewChunk(file, text, loop.i, loop.chunkIndex))])
    ELSE loop.chunks

RECURSIVE ChunkLoop(_, _, _)
\* lines 60-80: the while loop, from the loop state [i, chunkIndex, chunks] on
ChunkLoop(file, text, loop) ==
    IF loop.i < Length(text)
    THEN ChunkLoop(file, text,
                   [i |-> loop.i + CHUNK_SIZE - CHUNK_OVERLAP,
                    chunkIndex |-> loop.chunkIndex + 1,
                    chunks |-> Append(loop.chunks,
                                      NewChunk(file, text, loop.i, loop.chunkIndex))])
    ELSE loop.chunks

\* lines 57-80
ChunkText(file, text) == ChunkLoop(file, text, [i |-> 0, chunkIndex |-> 0, chunks |-> <<>>])

----------------------------------------------------------------------------
(* processFile: step 5, Store in Qdrant *)

\* the array currentFileState.chunks refers to
Chunks(m) == m.arrays[Cur(m).chunks]

\* a client call goes out
Call(m, op, ids) ==
    [m EXCEPT !.calls = Append(@, [op |-> op, collection |-> config.collectionName,
                                   ids |-> ids])]

\* a variant of Batch that is one point short
BatchOneShort(pts, start) ==
    SubSeq(pts, start + 1, Min(start + BATCH_SIZE - 1, Len(pts)))

\* points.slice(start, start + BATCH_SIZE)
Batch(pts, start) ==
    SubSeq(pts, start + 1, Min(start + BATCH_SIZE, Len(pts)))

PointIds(pts) == [k \in DOMAIN pts |-> pts[k].id]

\* a variant of PointOf that numbers the points on from those the collection
\* holds
PointOfNumberedOn(chunk) ==
    [id |-> ChunkId(chunk.id.job,
                    chunk.id.k + IF config.collectionName \in DOMAIN store
                                 THEN Cardinality(DOMAIN store[config.collectionName])
                                 ELSE 0),
     vector |-> chunk.embedding,
     payload |-> [text |-> chunk.text, metadata |-> chunk.metadata]]

\* lines 134-141: the point of a chunk
PointOf(chunk) ==
    [id |-> chunk.id,
     vector |-> chunk.embedding,
     payload |-> [text |-> chunk.text, metadata |-> chunk.metadata]]

\* line 132: the error of the first chunk without an embedding
MissingEmbedding(chunks) ==
    LET k == CHOOSE k \in DOMAIN chunks :
                /\ ~chunks[k].embedding.present
                /\ \A l \in 1..(k - 1) : chunks[l].embedding.present
    IN  ErrorOf(Str("Chunk %id is missing an embedding.", chunks[k].id.k, chunks[k].id.job.name))

\* a variant of Finalized that sets the job status before the step's
FinalizedStatusFirst(m) ==
    LET m1 == [m EXCEPT !.objs[m.cur].status = "completed"]
        m2 == onUpdate(m1, m1.cur)
        m3 == SetStepAndPublish(m2, "Store in Qdrant", "completed",
                    Present(Str("%n vectors stored in '%name'.", Len(Chunks(m)),
                                config.collectionName)))
    IN  [m3 EXCEPT !.pc = "done", !.promise = "resolved"]

\* lines 163-168: the stage completes, then the job, on the same object
Finalized(m) ==
    LET m1 == SetStepAndPublish(m, "Store in Qdrant", "completed",
                    Present(Str("%n vectors stored in '%name'.", Len(Chunks(m)),
                                config.collectionName)))
        m2 == [m1 EXCEPT !.objs[m1.cur].status = "completed"]
        m3 == onUpdate(m2, m2.cur)
    IN  [m3 EXCEPT !.pc = "done", !.promise = "resolved"]

\* a variant of UpsertFrom that sends each batch a second time
UpsertFromSendsTwice(m, start) ==
    IF start < Len(m.points)
    THEN [Call(Call(m, "upsert", PointIds(Batch(m.points, start))),
               "upsert", PointIds(Batch(m.points, start)))
            EXCEPT !.i = start, !.pc = "upsert"]
    ELSE Finalized(m)

\* lines 146-151: the loop test at offset `start`, and the next upsert going out
UpsertFrom(m, start) ==
    IF start < Len(m.points)
    THEN [Call(m, "upsert", PointIds(Batch(m.points, start)))
            EXCEPT !.i = start, !.pc = "upsert"]
    ELSE Finalized(m)

\* lines 127-148: the collection is there
Upserting(m) ==
    LET m1 == SetStepAndPublish(m, "Store in Qdrant", "in-progress",
                    Present(Str("Upserting %n vectors...", Len(Chunks(m)), "")))
        chunks == Chunks(m1)
    IN  IF \E k \in DOMAIN chunks : ~chunks[k].embedding.present
        THEN Catch(m1, MissingEmbedding(chunks))
        ELSE UpsertFrom([m1 EXCEPT !.points = [k \in DOMAIN chunks |-> PointOf(chunks[k])]],
                        0)

\* a variant of Embedded that contacts the cluster before looking at the
\* configuration
EmbeddedConnectsBeforeCheck(m) ==
    LET m1 == SetStepAndPublish(m, "Generate Embeddings", "completed",
                    Present(Str("Embeddings created for %n chunks.", Len(Chunks(m)), "")))
        m2 == SetStepAndPublish(m1, "Store in Qdrant", "in-progress", Absent)
        m3 == SetStepAndPublish(m2, "Store in Qdrant", "in-progress",
                    Present(Str("Connecting to Qdrant cluster...", 0, "")))
        m4 == Call(m3, "getCollections", <<>>)
    IN  IF config.qdrantUrl = "" \/ config.qdrantApiKey = "" \/ config.collectionName = ""
        THEN Catch(m4, ConfigurationError)
        ELSE IF config.qdrantUrl \notin UrlsWithProtocol
             THEN Catch(m4, ClientConfigError)
             ELSE [m4 EXCEPT !.pc = "getCollections"]

\* lines 95-115: after the embedding loop, up to the await of getCollections
Embedded(m) ==
    LET m1 == SetStepAndPublish(m, "Generate Embeddings", "completed",
                    Present(Str("Embeddings created for %n chunks.", Len(Chunks(m)), "")))
        m2 == SetStepAndPublish(m1, "Store in Qdrant", "in-progress", Absent)
    IN  IF config.qdrantUrl = "" \/ config.qdrantApiKey = "" \/ config.collectionName = ""
        THEN Catch(m2, ConfigurationError)
        ELSE IF config.qdrantUrl \notin UrlsWithProtocol
             THEN Catch(m2, ClientConfigError)
             ELSE LET m3 == SetStepAndPublish(m2, "Store in Qdrant", "in-progress",
                                 Present(Str("Connecting to Qdrant cluster...", 0, "")))
                  IN  [Call(m3, "getCollections", <<>>) EXCEPT !.pc = "getCollections"]

\* a variant of Listed that creates the collection without looking at the answer
ListedAlwaysCreates(m, collections) ==
    LET m1 == SetStepAndPublish(m, "Store in Qdrant", "in-progress",
                   Present(Str("Collection '%name' not found. Creating...", 0,
                               config.collectionName)))
    IN  [Call(m1, "createCollection", <<>>) EXCEPT !.pc = "createCollection"]

\* lines 116-125: getCollections has answered with the names `collections`
Listed(m, collections) ==
    IF config.collectionName \in collections
    THEN Upserting(m)
    ELSE LET m1 == SetStepAndPublish(m, "Store in Qdrant", "in-progress",
                        Present(Str("Collection '%name' not found. Creating...", 0,
                                    config.collectionName)))
         IN  [Call(m1, "createCollection", <<>>) EXCEPT !.pc = "createCollection"]

\* the cluster after upsert(collection, {wait: true, points: batch}): insert or
\* replace by id
Upserted(st, collection, batch) ==
    [st EXCEPT ![collection] =
        [id \in DOMAIN st[collection] \cup {batch[k].id : k \in DOMAIN batch} |->
            IF \E k \in DOMAIN batch : batch[k].id = id
            THEN LET k == CHOOSE l \in DOMAIN batch :
                            /\ batch[l].id = id
                            /\ \A n \in (l + 1)..Len(batch) : batch[n].id # id
                 IN  [vector |-> batch[k].vector, payload |-> batch[k].payload]
            ELSE st[collection][id]]]

\* a variant of Stored whose inner loop stops one chunk short of the batch
StoredButLastOfBatch(m) ==
    LET batch == Batch(m.points, m.i)
        ref == Cur(m).chunks
        m1 == [m EXCEPT !.arrays[ref] =
                  [k \in DOMAIN @ |->
                      IF k - 1 \in m.i..(m.i + Len(batch) - 2)
                      THEN [@[k] EXCEPT !.storageStatus = "completed"]
                      ELSE @[k]]]
        m2 == Alloc(m1, Cur(m1))
        m3 == onUpdate(m2, Len(m2.objs))
    IN  UpsertFrom(m3, m.i + BATCH_SIZE)

\* lines 153-161: the upsert of the batch at offset i is acknowledged
Stored(m) ==
    LET batch == Batch(m.points, m.i)
        ref == Cur(m).chunks
        m1 == [m EXCEPT !.arrays[ref] =
                  [k \in DOMAIN @ |->
                      IF k - 1 \in m.i..(m.i + Len(batch) - 1)
                      THEN [@[k] EXCEPT !.storageStatus = "completed"]
                      ELSE @[k]]]
        m2 == Alloc(m1, Cur(m1))
        m3 == onUpdate(m2, Len(m2.objs))
    IN  UpsertFrom(m3, m.i + BATCH_SIZE)

----------------------------------------------------------------------------
(* processFile: step 4, Generate Embeddings *)

\* lines 88-89: the loop test at index `index`
EmbedFrom(m, index) ==
    IF index < Len(Chunks(m))
    THEN [m EXCEPT !.j = index, !.pc = "embed"]
    ELSE Embedded([m EXCEPT !.j = index])

\* a variant of Chunked that reports Chunk Text completed before the chunks
\* are attached to the job
ChunkedReportsBeforeAttaching(m) ==
    LET chunks == ChunkText(Cur(m), m.cleanedText.val)
        m1 == [m EXCEPT !.arrays = Append(@, chunks)]
        m2 == SetStepAndPublish(m1, "Chunk Text", "completed",
                    Present(Str("%n chunks created.", Len(chunks), "")))
        m3 == Assign(m2, [Cur(m2) EXCEPT !.chunks = Len(m1.arrays)])
        m4 == SetStepAndPublish(m3, "Generate Embeddings", "in-progress", Absent)
    IN  EmbedFrom(m4, 0)

\* lines 57-88
Chunked(m) ==
    LET chunks == ChunkText(Cur(m), m.cleanedText.val)
        m1 == [m EXCEPT !.arrays = Append(@, chunks)]
        m2 == Assign(m1, [Cur(m1) EXCEPT !.chunks = Len(m1.arrays)])
        m3 == SetStepAndPublish(m2, "Chunk Text", "completed",
                    Present(Str("%n chunks created.", Len(chunks), "")))
        m4 == SetStepAndPublish(m3, "Generate Embeddings", "in-progress", Absent)
    IN  EmbedFrom(m4, 0)

\* a variant of EmbeddedChunk that marks every chunk's embeddingStatus
EmbeddedChunkMarksEveryChunk(m) ==
    LET ref == Cur(m).chunks
        m1 == [m EXCEPT !.arrays[ref][m.j + 1].embedding = Embedding(VECTOR_DIMENSION)]
        m2 == [m1 EXCEPT !.arrays[ref] =
                  [k \in DOMAIN @ |-> [@[k] EXCEPT !.embeddingStatus = "completed"]]]
        m3 == Alloc(m2, Cur(m2))
        m4 == onUpdate(m3, Len(m3.objs))
    IN  EmbedFrom(m4, m.j + 1)

\* a variant of EmbeddedChunk that sets storageStatus instead of embeddingStatus
EmbeddedChunkMarksStorage(m) ==
    LET ref == Cur(m).chunks
        m1 == [m EXCEPT !.arrays[ref][m.j + 1].embedding = Embedding(VECTOR_DIMENSION)]
        m2 == [m1 EXCEPT !.arrays[ref][m.j + 1].storageStatus = "completed"]
        m3 == Alloc(m2, Cur(m2))
        m4 == onUpdate(m3, Len(m3.objs))
    IN  EmbedFrom(m4, m.j + 1)

\* a variant of EmbeddedChunk whose loop takes the chunks from the last to the
\* first
EmbeddedChunkFromTheEnd(m) ==
    LET ref == Cur(m).chunks
        k == Len(m.arrays[ref]) - m.j
        m1 == [m EXCEPT !.arrays[ref][k].embedding = Embedding(VECTOR_DIMENSION)]
        m2 == [m1 EXCEPT !.arrays[ref][k].embeddingStatus = "completed"]
        m3 == Alloc(m2, Cur(m2))
        m4 == onUpdate(m3, Len(m3.objs))
    IN  EmbedFrom(m4, m.j + 1)

\* lines 90-94: the body of the loop for chunk j, on the chunk objects in place
EmbeddedChunk(m) ==
    LET ref == Cur(m).chunks
        m1 == [m EXCEPT !.arrays[ref][m.j + 1].embedding = Embedding(VECTOR_DIMENSION)]
        m2 == [m1 EXCEPT !.arrays[ref][m.j + 1].embeddingStatus = "completed"]
        m3 == Alloc(m2, Cur(m2))
        m4 == onUpdate(m3, Len(m3.objs))
    IN  EmbedFrom(m4, m.j + 1)

----------------------------------------------------------------------------
(* The collaborators' answers *)

\* the embedding of one chunk: the source draws random numbers, which cannot
\* fail; the embedding collaborator of the specification (section 6) may
EmbedOutcomes == {"ok", "fails"}

\* how a Qdrant client call ends: an answer, a thrown Error, a thrown non-Error
CallOutcomes == {"ok", "error", "nonerror"}

CallFailure(op, outcome) ==
    IF outcome = "error" THEN ErrorOf(Str("%name failed", 0, op)) ELSE NonError

\* a cluster with the collections `names`, each empty
EmptyStore(names) == [c \in names |-> [id \in {} |-> [vector |-> NoEmbedding, payload |-> <<>>]]]

----------------------------------------------------------------------------
(* The state machine *)

Init ==
    /\ pc = "idle"
    /\ \E name \in FileNames :
          objs = <<NewProcessedFile(FileOf(name), 0, 0, 1)>>
    /\ arrays = << <<>> >>
    /\ cur = 1
    /\ published = <<>>
    /\ seenChunks = <<>>
    /\ extractedText = NullText
    /\ cleanedText = NullText
    /\ j = 0
    /\ points = <<>>
    /\ i = 0
    /\ config \in [qdrantUrl : {"", "qdrant.example"} \cup UrlsWithProtocol,
                   qdrantApiKey : {"", "secret"},
                   collectionName : {"", "legal_documents"}]
    /\ env \in [apiKeySet : BOOLEAN]
    /\ backend = "none"
    /\ store \in {EmptyStore({"other"}), EmptyStore({"legal_documents"})}
    /\ calls = <<>>
    /\ thrown = NothingThrown
    /\ promise = "none"
    /\ files = <<>>
    /\ selectedFile = <<>>
    /\ isProcessing = FALSE
    /\ runs = <<>>
    /\ invocations = <<>>
    /\ clock = 0

\* the driver calls processFile(file, onUpdate, qdrantUrl, qdrantApiKey, collectionName)
processFile ==
    /\ pc = "idle"
    /\ Commit(Invoked(M))

\* await simulateProcessing(1000); await generateLegalText(...)
ExtractReturns ==
    /\ pc = "extract"
    /\ \E response \in Responses :
          Commit(Extracted([M EXCEPT !.backend = BackendOutcome(env.apiKeySet, response)],
                           generateLegalText(Cur(M).file.name, env.apiKeySet, response)))

\* await simulateProcessing(500)
CleanText_ ==
    /\ pc = "clean"
    /\ Commit(Cleaned(M))

\* await simulateProcessing(800)
ChunkText_ ==
    /\ pc = "chunk"
    /\ Commit(Chunked(M))

\* await simulateProcessing(50) and the embedding of chunk j
EmbedReturns ==
    /\ pc = "embed"
    /\ \E outcome \in EmbedOutcomes :
          IF outcome = "ok"
          THEN Commit(EmbeddedChunk(M))
          ELSE Commit(Catch(M, EmbeddingError))

\* await client.getCollections()
GetCollectionsReturns ==
    /\ pc = "getCollections"
    /\ \E outcome \in CallOutcomes :
          IF outcome = "ok"
          THEN Commit(Listed(M, DOMAIN store))
          ELSE Commit(Catch(M, CallFailure("getCollections", outcome)))

\* await client.createCollection(...); await simulateProcessing(1000)
CreateCollectionReturns ==
    /\ pc = "createCollection"
    /\ \E outcome \in CallOutcomes :
          IF outcome = "ok" /\ config.collectionName \notin DOMAIN store
          THEN Commit(Upserting([M EXCEPT !.store =
                    [c \in DOMAIN store \cup {config.collectionName} |->
                        IF c \in DOMAIN store THEN store[c]
                        ELSE EmptyStore({c})[c]]]))
          ELSE Commit(Catch(M, CallFailure("createCollection", outcome)))

\* await client.upsert(collectionName, {wait: true, points: batch})
UpsertReturns ==
    /\ pc = "upsert"
    /\ \E outcome \in CallOutcomes :
          IF outcome = "ok" /\ config.collectionName \in DOMAIN store
          THEN Commit(Stored([M EXCEPT !.store =
                    Upserted(store, config.collectionName, Batch(points, i))]))
          ELSE Commit(Catch(M, CallFailure("upsert", outcome)))

Next ==
    \/ processFile
    \/ ExtractReturns
    \/ CleanText_
    \/ ChunkText_
    \/ EmbedReturns
    \/ GetCollectionsReturns
    \/ CreateCollectionReturns
    \/ UpsertReturns

Spec == Init /\ [][Next]_vars

----------------------------------------------------------------------------
(* The chunking step on its own: processFile suspended at the await of line  *)
(* 56 with a cleaned text of any length up to MaxChunkedLen, then lines      *)
(* 57-88.  The text's character at position p is the (p div 100 + 1)-th      *)
(* letter, so that a chunk's text tells where it was cut.                    *)

\* the longest cleaned text chunked here
MaxChunkedLen == 2500

Letters == <<"A", "B", "C", "D", "E", "F", "G", "H", "I", "J", "K", "L", "M", "N", "O", "P",
             "Q", "R", "S", "T", "U", "V", "W", "X", "Y", "Z">>

\* a text of the length without whitespace: cleaning leaves it as it is
TextOfLength(len) ==
    [k \in 1..((len + 99) \div 100) |->
        Run(Letters[((k - 1) % 26) + 1], Min(100, len - (k - 1) * 100))]

\* the machine when processFile is called for the job of a dropped file
InitialMachine(name) ==
    [pc |-> "idle", objs |-> <<NewProcessedFile(FileOf(name), 0, 0, 1)>>, arrays |-> << <<>> >>,
     cur |-> 1, published |-> <<>>, seenChunks |-> <<>>, extractedText |-> NullText,
     cleanedText |-> NullText, j |-> 0, points |-> <<>>, i |-> 0, backend |-> "none",
     store |-> EmptyStore({"legal_documents"}), calls |-> <<>>, thrown |-> NothingThrown,
     promise |-> "none"]

\* the chunk arrays of the calls before the latest are let go of
Trim(m) == [m EXCEPT !.seenChunks = IF @ = <<>> THEN <<>> ELSE <<@[Len(@)]>>]

\* processFile after lines 32-56, the extraction having answered with `text`
AtChunk(name, text) ==
    Cleaned(Trim(Extracted(Trim(Invoked(InitialMachine(name))), StringText(text))))

ChunkerInit ==
    /\ config = [qdrantUrl |-> "https://qdrant.example", qdrantApiKey |-> "secret",
                 collectionName |-> "legal_documents"]
    /\ env = [apiKeySet |-> TRUE]
    /\ files = <<>>
    /\ selectedFile = <<>>
    /\ isProcessing = FALSE
    /\ runs = <<>>
    /\ invocations = <<>>
    /\ clock = 0
    /\ \E m \in {[AtChunk(name, TextOfLength(len)) EXCEPT !.backend = "text"] :
                    name \in {"a.pdf", "b.docx"}, len \in 0..MaxChunkedLen} :
          /\ pc = m.pc
          /\ objs = m.objs
          /\ arrays = m.arrays
          /\ cur = m.cur
          /\ published = m.published
          /\ seenChunks = m.seenChunks
          /\ extractedText = m.extractedText
          /\ cleanedText = m.cleanedText
          /\ j = m.j
          /\ points = m.points
          /\ i = m.i
          /\ backend = m.backend
          /\ store = m.store
          /\ calls = m.calls
          /\ thrown = m.thrown
          /\ promise = m.promise

ChunkerSpec == ChunkerInit /\ [][ChunkText_]_vars

----------------------------------------------------------------------------
(* The storage stage run again: processFile invoked a second time for the    *)
(* same job, the extraction answering with the same text, against the        *)
(* cluster as the first invocation left it.  Both invocations are taken up   *)
(* where the embedding loop begins.                                          *)

\* the most invocations for the one job
MaxStorageRuns == 2

\* the texts stored: of one chunk, two and three, and of two batches
StoredTexts ==
    {TextOfLength(len) : len \in {1, CHUNK_SIZE - CHUNK_OVERLAP + 1,
                                  2 * (CHUNK_SIZE - CHUNK_OVERLAP) + 1}}
    \cup {<<Run("A", MaxTextLen)>>}

\* processFile from its call to the first await of the embedding loop
\* (lines 32-88), on the cluster `st` with the calls `cs` made before, the
\* extraction having answered with `text`
AtEmbed(name, text, st, cs) ==
    LET m0 == [InitialMachine(name) EXCEPT !.store = st, !.calls = cs, !.backend = "text"]
    IN  Trim(Chunked(Trim(Cleaned(Trim(Extracted(Trim(Invoked(m0)), StringText(text)))))))

RerunInit ==
    /\ config = [qdrantUrl |-> "https://qdrant.example", qdrantApiKey |-> "secret",
                 collectionName |-> "legal_documents"]
    /\ env = [apiKeySet |-> TRUE]
    /\ files = <<>>
    /\ selectedFile = <<>>
    /\ isProcessing = FALSE
    /\ runs = <<>>
    /\ invocations = <<>>
    /\ clock = 0
    /\ \E m \in {AtEmbed(name, text, st, <<>>) :
                    name \in FileNames, text \in StoredTexts,
                    st \in {EmptyStore({"other"}), EmptyStore({"legal_documents"})}} :
          /\ pc = m.pc
          /\ objs = m.objs
          /\ arrays = m.arrays
          /\ cur = m.cur
          /\ published = m.published
          /\ seenChunks = m.seenChunks
          /\ extractedText = m.extractedText
          /\ cleanedText = m.cleanedText
          /\ j = m.j
          /\ points = m.points
          /\ i = m.i
          /\ backend = m.backend
          /\ store = m.store
          /\ calls = m.calls
          /\ thrown = m.thrown
          /\ promise = m.promise

\* the invocations so far: each has issued one getCollections
StorageRuns == Cardinality({c \in DOMAIN calls : calls[c].op = "getCollections"})

\* processFile is called again for the same job once the invocation before
\* has returned
processFileAgain ==
    /\ pc = "done"
    /\ StorageRuns < MaxStorageRuns
    /\ Commit(AtEmbed(objs[1].file.name, extractedText.val, store, calls))

RerunNext ==
    \/ EmbedReturns
    \/ GetCollectionsReturns
    \/ CreateCollectionReturns
    \/ UpsertReturns
    \/ processFileAgain

RerunSpec == RerunInit /\ [][RerunNext]_vars

----------------------------------------------------------------------------
(* updateStepStatus on its own: the statement                                *)
(*   currentFileState = updateStepStatus(currentFileState, name, status, d)  *)
(* applied to a job again and again, each call noted in `calls` with its     *)
(* arguments as they were passed; and the catch block entered with the job   *)
(* so made, as when the callback passed to processFile throws.               *)

\* the most calls of updateStepStatus in a row
MaxUpdates == 2

\* the step names passed: the five of a job and one no job has
PassedNames == {StepNames[k] : k \in 1..5} \cup {"Review"}

PassedDetails == {Absent, Present(Str("%n chars extracted.", 1, ""))}

\* the jobs passed first: as the driver makes them, and one under way
PassedJobs ==
    {NewProcessedFile(FileOf(name), 0, 0, 1) : name \in FileNames}
    \cup {[NewProcessedFile(FileOf(name), 0, 0, 1)
              EXCEPT !.status = "in-progress",
                     !.extractedText = StringText(<<Run("A", 1)>>),
                     !.steps[1].status = "in-progress"] : name \in FileNames}

StepInit ==
    /\ pc = "idle"
    /\ objs \in {<<job>> : job \in PassedJobs}
    /\ arrays = << <<>> >>
    /\ cur = 1
    /\ published = <<>>
    /\ seenChunks = <<>>
    /\ extractedText = NullText
    /\ cleanedText = NullText
    /\ j = 0
    /\ points = <<>>
    /\ i = 0
    /\ config = [qdrantUrl |-> "https://qdrant.example", qdrantApiKey |-> "secret",
                 collectionName |-> "legal_documents"]
    /\ env = [apiKeySet |-> TRUE]
    /\ backend = "none"
    /\ store = EmptyStore({"legal_documents"})
    /\ calls = <<>>
    /\ thrown = NothingThrown
    /\ promise = "none"
    /\ files = <<>>
    /\ selectedFile = <<>>
    /\ isProcessing = FALSE
    /\ runs = <<>>
    /\ invocations = <<>>
    /\ clock = 0

\* currentFileState = updateStepStatus(currentFileState, stepName, status, details)
UpdateStep ==
    /\ pc = "idle"
    /\ Len(calls) < MaxUpdates
    /\ \E stepName \in PassedNames, status \in {"in-progress", "completed", "failed"},
          details \in PassedDetails :
          Commit(Assign([M EXCEPT !.calls = Append(@, [op |-> "updateStepStatus",
                                                       file |-> Cur(M),
                                                       stepName |-> stepName,
                                                       status |-> status,
                                                       details |-> details])],
                        updateStepStatus(Cur(M), stepName, status, details)))

\* the values caught: an Error and a value that is none
CaughtValues == {ConfigurationError, CallFailure("upsert", "nonerror")}

\* lines 170-187: an error thrown in the try block reaches the catch block
ErrorCaught ==
    /\ pc = "idle"
    /\ \E error \in CaughtValues : Commit(Catch(M, error))

StepNext ==
    \/ UpdateStep
    \/ ErrorCaught

StepSpec == StepInit /\ [][StepNext]_vars

----------------------------------------------------------------------------
(* The driver: App.tsx.  It sees an invocation of processFile through the   *)
(* snapshots it publishes (their id and status) and through its calls to     *)
(* the cluster, so an invocation is kept here as the await it is suspended   *)
(* at: "working" (steps 1 to 4 and getCollections), "createCollection",      *)
(* "upsert", or "settled".  Two drops are more than a millisecond apart.     *)

\* the most drops of files on the upload zone, files in one drop, and clicks
\* on Process
MaxDrops == 2
MaxFilesPerDrop == 2
MaxRuns == 3

\* what the driver reads of a ProcessedFile
JobOf(file) == [id |-> file.id, status |-> file.status]

D == [files |-> files, selectedFile |-> selectedFile, isProcessing |-> isProcessing,
      runs |-> runs, invocations |-> invocations, clock |-> clock,
      store |-> store, calls |-> calls]

DCommit(d) ==
    /\ files' = d.files
    /\ selectedFile' = d.selectedFile
    /\ isProcessing' = d.isProcessing
    /\ runs' = d.runs
    /\ invocations' = d.invocations
    /\ clock' = d.clock
    /\ store' = d.store
    /\ calls' = d.calls
    /\ UNCHANGED <<pipelineVars, config, env>>

\* lines 22-39: the jobs of the dropped files, appended to the list
handleFilesAdded(d, names) ==
    [d EXCEPT !.files = @ \o [k \in DOMAIN names |->
                                JobOf(NewProcessedFile(FileOf(names[k]), d.clock, k - 1, 0))]]

\* lines 18-20
handleFileSelect(d, file) == [d EXCEPT !.selectedFile = <<file>>]

\* lines 61-65
handleClearAll(d) ==
    [d EXCEPT !.files = <<>>, !.selectedFile = <<>>, !.isProcessing = FALSE]

\* line 68
canProcess(d) ==
    /\ ~d.isProcessing
    /\ \E k \in DOMAIN d.files : d.files[k].status = "pending"
    /\ config.qdrantUrl # "" /\ config.qdrantApiKey # "" /\ config.collectionName # ""

\* a variant of UpdateCallback that appends the job published when the list
\* has no entry under its id
UpdateCallbackAddsMissing(d, captured, updatedFile) ==
    [d EXCEPT !.files = IF \E k \in DOMAIN @ : @[k].id = updatedFile.id
                        THEN [k \in DOMAIN @ |->
                                IF @[k].id = updatedFile.id THEN updatedFile ELSE @[k]]
                        ELSE Append(@, updatedFile),
              !.selectedFile = IF captured = <<>> \/ captured[1].id = updatedFile.id
                               THEN <<updatedFile>>
                               ELSE @]

\* a variant of UpdateCallback that puts the job published in the place of
\* every job of the list that is in-progress
UpdateCallbackOfAllInProgress(d, captured, updatedFile) ==
    [d EXCEPT !.files = [k \in DOMAIN @ |->
                            IF @[k].id = updatedFile.id \/ @[k].status = "in-progress"
                            THEN updatedFile ELSE @[k]],
              !.selectedFile = IF captured = <<>> \/ captured[1].id = updatedFile.id
                               THEN <<updatedFile>>
                               ELSE @]

\* lines 48-53: the callback passed to processFile; `captured` is the
\* selectedFile of the render the click happened in
UpdateCallback(d, captured, updatedFile) ==
    [d EXCEPT !.files = [k \in DOMAIN @ |->
                            IF @[k].id = updatedFile.id THEN updatedFile ELSE @[k]],
              !.selectedFile = IF captured = <<>> \/ captured[1].id = updatedFile.id
                               THEN <<updatedFile>>
                               ELSE @]

\* line 48 and pipelineService.ts lines 32-37: processFile(file, ...) is
\* called and runs to its first await, publishing the job in-progress
Invoke(d, r, file) ==
    LET d1 == [d EXCEPT !.invocations = Append(@, [id |-> file.id, run |-> r,
                                                    pc |-> "working"])]
    IN  UpdateCallback(d1, d.runs[r].selectedFile, [file EXCEPT !.status = "in-progress"])

\* lines 47-57: the for loop of run r at position pos of its pendingFiles
LoopFrom(d, r, pos) ==
    IF pos <= Len(d.runs[r].pendingFiles)
    THEN Invoke([d EXCEPT !.runs[r].pos = pos], r, d.runs[r].pendingFiles[pos])
    ELSE [d EXCEPT !.runs[r].pos = pos, !.runs[r].running = FALSE, !.isProcessing = FALSE]

\* lines 41-58, up to the first await
handleProcessAll(d) ==
    IF d.isProcessing THEN d
    ELSE LET pendingFiles == SelectSeq(d.files, LAMBDA f : f.status = "pending")
             run == [pendingFiles |-> pendingFiles, selectedFile |-> d.selectedFile,
                     pos |-> 0, running |-> TRUE]
             d1 == [d EXCEPT !.isProcessing = TRUE, !.selectedFile = <<>>,
                             !.runs = Append(@, run)]
         IN  LoopFrom(d1, Len(d1.runs), 1)

\* invocation n publishes a snapshot with the job still in-progress and
\* suspends at the next await
Progressed(d, n, next) ==
    LET inv == d.invocations[n]
    IN  UpdateCallback([d EXCEPT !.invocations[n].pc = next], d.runs[inv.run].selectedFile,
                       [id |-> inv.id, status |-> "in-progress"])

\* a variant of Settled in which the loop ends when a file has failed
SettledStopsOnFailure(d, n, status) ==
    LET inv == d.invocations[n]
        d1 == UpdateCallback([d EXCEPT !.invocations[n].pc = "settled"],
                             d.runs[inv.run].selectedFile,
                             [id |-> inv.id, status |-> status])
    IN  IF status = "failed"
        THEN [d1 EXCEPT !.runs[inv.run].running = FALSE, !.isProcessing = FALSE]
        ELSE LoopFrom(d1, inv.run, d.runs[inv.run].pos + 1)

\* invocation n publishes its terminal snapshot (pipelineService.ts lines
\* 163-168 or 170-187) and returns; the loop that awaited it goes on
Settled(d, n, status) ==
    LET inv == d.invocations[n]
        d1 == UpdateCallback([d EXCEPT !.invocations[n].pc = "settled"],
                             d.runs[inv.run].selectedFile,
                             [id |-> inv.id, status |-> status])
    IN  LoopFrom(d1, inv.run, d.runs[inv.run].pos + 1)

\* a client call of an invocation goes out
DriverCall(d, op) ==
    [d EXCEPT !.calls = Append(@, [op |-> op, collection |-> config.collectionName,
                                   ids |-> <<>>])]

DriverInit ==
    /\ files = <<>>
    /\ selectedFile = <<>>
    /\ isProcessing = FALSE
    /\ runs = <<>>
    /\ invocations = <<>>
    /\ clock = 0
    /\ config = [qdrantUrl |-> "https://qdrant.example", qdrantApiKey |-> "secret",
                 collectionName |-> "legal_documents"]
    /\ env = [apiKeySet |-> TRUE]
    /\ store \in {EmptyStore({"other"}), EmptyStore({"legal_documents"})}
    /\ calls = <<>>
    /\ pc = "idle"
    /\ objs = <<>>
    /\ arrays = <<>>
    /\ cur = 0
    /\ published = <<>>
    /\ seenChunks = <<>>
    /\ extractedText = NullText
    /\ cleanedText = NullText
    /\ j = 0
    /\ points = <<>>
    /\ i = 0
    /\ backend = "none"
    /\ thrown = NothingThrown
    /\ promise = "none"

\* the user drops files on the upload zone
FilesDropped ==
    /\ clock < MaxDrops
    /\ \E n \in 1..MaxFilesPerDrop : \E names \in [1..n -> FileNames] :
          DCommit([handleFilesAdded(D, names) EXCEPT !.clock = @ + 1])

\* the user clicks a file of the list
FileSelected ==
    \E k \in DOMAIN files : DCommit(handleFileSelect(D, files[k]))

\* the user clicks Process, which is enabled when canProcess
ProcessClicked ==
    /\ canProcess(D)
    /\ Len(runs) < MaxRuns
    /\ DCommit(handleProcessAll(D))

\* the user clicks Clear All
ClearAllClicked ==
    \E d \in {handleClearAll(D)} : DCommit(d)

\* an invocation gets through steps 1 to 4 and its getCollections is answered
\* (pipelineService.ts lines 38-125), or it fails on the way
InvocationListed ==
    \E n \in DOMAIN invocations :
        /\ invocations[n].pc = "working"
        /\ \E outcome \in {"ok", "fails"} :
              IF outcome = "ok"
              THEN IF config.collectionName \in DOMAIN store
                   THEN DCommit(Progressed(D, n, "upsert"))
                   ELSE DCommit(Progressed(DriverCall(D, "createCollection"), n,
                                           "createCollection"))
              ELSE DCommit(Settled(D, n, "failed"))

\* await client.createCollection(...) of an invocation: the cluster refuses to
\* create a collection that exists
InvocationCreated ==
    \E n \in DOMAIN invocations :
        /\ invocations[n].pc = "createCollection"
        /\ IF config.collectionName \notin DOMAIN store
           THEN DCommit(Progressed(
                   [D EXCEPT !.store = [c \in DOMAIN store \cup {config.collectionName} |->
                                           IF c \in DOMAIN store THEN store[c]
                                           ELSE EmptyStore({c})[c]]],
                   n, "upsert"))
           ELSE DCommit(Settled(D, n, "failed"))

\* await client.upsert(...) of an invocation, and its last snapshot
InvocationUpserted ==
    \E n \in DOMAIN invocations :
        /\ invocations[n].pc = "upsert"
        /\ \E outcome \in {"ok", "fails"} :
              IF outcome = "ok"
              THEN DCommit(Settled(D, n, "completed"))
              ELSE DCommit(Settled(D, n, "failed"))

DriverNext ==
    \/ FilesDropped
    \/ FileSelected
    \/ ProcessClicked
    \/ ClearAllClicked
    \/ InvocationListed
    \/ InvocationCreated
    \/ InvocationUpserted

DriverSpec == DriverInit /\ [][DriverNext]_vars

----------------------------------------------------------------------------
(* What the observer has seen *)

StepStatus(file, k) == file.steps[k].status

\* the steps of a snapshot that have the status
StepsWith(file, status) == {k \in DOMAIN file.steps : file.steps[k].status = status}

\* the index in `published` of the first call whose chunk array is kept
FirstKept == Len(published) - Len(seenChunks) + 1

\* the k-th onUpdate call's argument as it was at the call, chunks included
\* (k >= FirstKept)
Snapshot(k) == [published[k].file EXCEPT !.chunks = seenChunks[k - FirstKept + 1]]

\* the calls whose full snapshot is kept
Kept == FirstKept..Len(published)

LastSnapshot == Snapshot(Len(published))

Terminal(file) ==
    \/ file.status \in {"completed", "failed"}
    \/ StepsWith(file, "failed") # {}

ConfigMissing ==
    config.qdrantUrl = "" \/ config.qdrantApiKey = "" \/ config.collectionName = ""

ClientFailures ==
    {CallFailure(op, outcome) : op \in {"getCollections", "createCollection", "upsert"},
                                outcome \in {"error", "nonerror"}}

ExtractionFailed == thrown.caught /\ thrown.error = NoTextError
EmbeddingFailed == thrown.caught /\ thrown.error = EmbeddingError
StoreCallFailed == thrown.caught /\ thrown.error \in ClientFailures

AllCompleted(file) ==
    /\ file.status = "completed"
    /\ \A k \in DOMAIN file.steps : file.steps[k].status = "completed"
    /\ \A k \in DOMAIN file.chunks :
          /\ file.chunks[k].embedding.present
          /\ file.chunks[k].embedding.length = VECTOR_DIMENSION
          /\ file.chunks[k].embeddingStatus = "completed"
          /\ file.chunks[k].storageStatus = "completed"

----------------------------------------------------------------------------
(* Claims *)

\* C1: in every snapshot passed to onUpdate (the job entered with all five
\* steps pending) at most one step is in-progress, every step before the
\* in-progress step is completed and every step after it is pending.
C1_OneInProgressBetweenCompletedAndPending ==
    \A n \in DOMAIN published :
        LET file == published[n].file
        IN  /\ Cardinality(StepsWith(file, "in-progress")) <= 1
            /\ \A k \in StepsWith(file, "in-progress") :
                  /\ \A l \in 1..(k - 1) : StepStatus(file, l) = "completed"
                  /\ \A l \in (k + 1)..5 : StepStatus(file, l) = "pending"

C1_Witness ==
    \E n \in DOMAIN published :
        /\ StepStatus(published[n].file, 5) = "in-progress"
        /\ \A l \in 1..4 : StepStatus(published[n].file, l) = "completed"

\* C2: when an error surfaces while a step is in-progress, exactly one more
\* snapshot is published; in it that step is failed with the error's message
\* as its details, the job status is failed and the job error is that message.
C2_FailureMapping ==
    thrown.caught =>
        /\ Len(published) = thrown.publishedBefore + 1
        /\ thrown.publishedBefore >= 1
        /\ LET before == published[thrown.publishedBefore].file
               final == published[Len(published)].file
           IN  /\ StepsWith(before, "in-progress") # {}
               /\ final.status = "failed"
               /\ final.error.present
               /\ thrown.error.isError => final.error.value = thrown.error.message
               /\ \A k \in StepsWith(before, "in-progress") :
                     /\ StepStatus(final, k) = "failed"
                     /\ final.steps[k].details = final.error
               /\ \A k \in (1..5) \ StepsWith(before, "in-progress") :
                     final.steps[k] = before.steps[k]

C2_Witness ==
    /\ thrown.caught
    /\ thrown.error = CallFailure("upsert", "error")
    /\ StepStatus(published[Len(published)].file, 5) = "failed"

C4_AsStated ==
    ConfigMissing =>
        /\ calls = <<>>
        /\ pc = "done" =>
              LET final == published[Len(published)].file
              IN  /\ \A k \in 1..4 : StepStatus(final, k) = "completed"
                  /\ StepStatus(final, 5) = "failed"
                  /\ final.status = "failed"
                  /\ final.error = Present(ConfigurationError.message)

\* C4, amended: with an empty endpoint, credential or collection name there
\* is never a client call; and unless extraction or embedding failed first,
\* the final snapshot has steps 1-4 completed, Store failed and the job
\* failed with the configuration error.
C4_ConfigurationFastFail ==
    ConfigMissing =>
        /\ calls = <<>>
        /\ (pc = "done" /\ ~ExtractionFailed /\ ~EmbeddingFailed) =>
              LET final == published[Len(published)].file
              IN  /\ \A k \in 1..4 : StepStatus(final, k) = "completed"
                  /\ StepStatus(final, 5) = "failed"
                  /\ final.steps[5].details = Present(ConfigurationError.message)
                  /\ final.status = "failed"
                  /\ final.error = Present(ConfigurationError.message)

C4_Witness ==
    /\ pc = "done"
    /\ config.qdrantApiKey = ""
    /\ config.qdrantUrl # ""
    /\ thrown.error = ConfigurationError
    /\ calls = <<>>
    /\ Len(arrays[Len(arrays)]) = 4

\* C5: between two consecutive snapshots every step's status is unchanged or
\* moves pending -> in-progress, in-progress -> completed or in-progress ->
\* failed; and no step is completed or failed in a snapshot without being
\* in-progress in an earlier one.
C5_StepsMoveForward ==
    /\ \A n \in 1..(Len(published) - 1) : \A k \in 1..5 :
          LET a == StepStatus(published[n].file, k)
              b == StepStatus(published[n + 1].file, k)
          IN  \/ a = b
              \/ <<a, b>> \in {<<"pending", "in-progress">>, <<"in-progress", "completed">>,
                               <<"in-progress", "failed">>}
    /\ \A n \in DOMAIN published : \A k \in 1..5 :
          StepStatus(published[n].file, k) \in {"completed", "failed"} =>
              \E e \in 1..(n - 1) : StepStatus(published[e].file, k) = "in-progress"

C5_Witness ==
    \E n \in 2..Len(published) :
        /\ StepStatus(published[n - 1].file, 3) = "in-progress"
        /\ StepStatus(published[n].file, 3) = "completed"
        /\ StepStatus(published[n].file, 4) = "pending"

\* C6: in every snapshot the completed steps are a prefix of the five steps
\* (no completed step comes after a step that is not completed) and at most
\* one step is in-progress.
C6_CompletedStepsArePrefix ==
    \A n \in DOMAIN published :
        LET file == published[n].file
            done == StepsWith(file, "completed")
        IN  /\ done = 1..Cardinality(done)
            /\ Cardinality(StepsWith(file, "in-progress")) <= 1

C6_Witness ==
    \E n \in DOMAIN published :
        /\ StepsWith(published[n].file, "completed") = {1, 2}
        /\ StepsWith(published[n].file, "in-progress") = {3}

\* C7: a snapshot with a failed step or with job status failed or completed
\* is the last onUpdate call, so no step after a failed step leaves pending.
C7_TerminalSnapshotIsLast ==
    /\ \A n \in 1..(Len(published) - 1) : ~Terminal(published[n].file)
    /\ (pc = "done") => Terminal(published[Len(published)].file)
    /\ \A n \in DOMAIN published : \A k \in StepsWith(published[n].file, "failed") :
          \A l \in (k + 1)..5 : StepStatus(published[n].file, l) = "pending"

C7_Witness ==
    /\ pc = "done"
    /\ StepStatus(published[Len(published)].file, 1) = "failed"
    /\ StepStatus(published[Len(published)].file, 2) = "pending"

\* C8: in every snapshot, if some chunk's storageStatus is not pending then
\* every chunk has an embedding and embeddingStatus completed.
C8_StoredOnlyAfterAllEmbedded ==
    \A n \in Kept :
        LET chunks == Snapshot(n).chunks
        IN  (\E k \in DOMAIN chunks : chunks[k].storageStatus # "pending") =>
                \A k \in DOMAIN chunks :
                    /\ chunks[k].embedding.present
                    /\ chunks[k].embeddingStatus = "completed"

\* the first batch is stored and the second is not yet
C8_Witness ==
    /\ published # <<>>
    /\ Len(LastSnapshot.chunks) > BATCH_SIZE
    /\ LastSnapshot.chunks[1].storageStatus = "completed"
    /\ LastSnapshot.chunks[BATCH_SIZE + 1].storageStatus = "pending"

\* C9 as stated: when extraction, embedding and every store call succeed the
\* last snapshot has the job, all five steps and every chunk completed.
C9_AsStated ==
    (pc = "done" /\ ~ExtractionFailed /\ ~EmbeddingFailed /\ ~StoreCallFailed) =>
        AllCompleted(LastSnapshot)

\* C9, amended: when the endpoint, credential and collection name are not
\* empty, the client accepts the endpoint, and extraction, embedding and every
\* store call succeed, the last snapshot has the job, all five steps and every
\* chunk completed (with an embedding); and job status completed never appears
\* in a snapshot with a step or chunk not completed.
C9_SuccessCompletesEverything ==
    /\ (pc = "done" /\ ~ConfigMissing /\ config.qdrantUrl \in UrlsWithProtocol
            /\ ~ExtractionFailed /\ ~EmbeddingFailed /\ ~StoreCallFailed) =>
          AllCompleted(LastSnapshot)
    /\ \A n \in Kept : Snapshot(n).status = "completed" => AllCompleted(Snapshot(n))

C9_Witness ==
    /\ pc = "done"
    /\ ~thrown.caught
    /\ Len(LastSnapshot.chunks) > BATCH_SIZE
    /\ AllCompleted(LastSnapshot)

\* the awaits processFile can be suspended at; at each of them the step that
\* follows is enabled as soon as the timer fires or the call returns or fails
Awaits == {"extract", "clean", "chunk", "embed", "getCollections", "createCollection",
           "upsert"}

\* what is left to do: the awaits still ahead, then the chunks or points left
\* in the loop the invocation is in
Remaining ==
    <<CASE pc = "idle" -> 8
        [] pc = "extract" -> 7
        [] pc = "clean" -> 6
        [] pc = "chunk" -> 5
        [] pc = "embed" -> 4
        [] pc = "getCollections" -> 3
        [] pc = "createCollection" -> 2
        [] pc = "upsert" -> 1
        [] OTHER -> 0,
      CASE pc = "embed" -> Len(arrays[objs[cur].chunks]) - j
        [] pc = "upsert" -> Len(points) - i
        [] OTHER -> 0>>

\* C10: an invocation whose calls all return or fail publishes a terminal
\* snapshot and then resolves; its promise never rejects.  Stated as: the
\* promise is never rejected; the invocation is either suspended at an await
\* with work remaining or done, resolved, with a terminal snapshot published
\* last; and every step strictly decreases what remains, so that no run goes
\* on for ever.
C10_AlwaysSettlesResolved ==
    /\ [](/\ promise # "rejected"
          /\ pc \in {"idle", "done"} \cup Awaits
          /\ pc \in Awaits => (promise = "pending" /\ Remaining[1] > 0 /\ Remaining[2] >= 0)
          /\ pc = "done" =>
                /\ promise = "resolved"
                /\ published[Len(published)].file.status \in {"completed", "failed"})
    /\ [][\/ Remaining'[1] < Remaining[1]
          \/ Remaining'[1] = Remaining[1] /\ Remaining'[2] < Remaining[2]]_vars

C10_Witness ==
    /\ promise = "resolved"
    /\ thrown.caught
    /\ thrown.error = CallFailure("createCollection", "error")

\* C11: if the extraction backend fails (the generateContent call rejects),
\* the final snapshot has Extract Text failed with an error and the job
\* failed, and in no snapshot has a later step left pending.
C11_ExtractionFailureFailsJob ==
    backend = "rejected" =>
        /\ \A n \in DOMAIN published : \A k \in 2..5 :
              StepStatus(published[n].file, k) = "pending"
        /\ pc = "done" =>
              LET final == published[Len(published)].file
              IN  /\ StepStatus(final, 1) = "failed"
                  /\ final.steps[1].details.present
                  /\ final.status = "failed"
                  /\ final.error.present

\* C12: every onUpdate call receives an object no earlier call received, and
\* every object handed to onUpdate still reads as it did at the call: its job
\* status and steps, and (for the calls whose chunks are kept) every chunk's
\* embedding, embeddingStatus and storageStatus.
C12_PublishedSnapshotsNeverChange ==
    /\ \A n, k \in DOMAIN published : n # k => published[n].ref # published[k].ref
    /\ \A n \in DOMAIN published :
          /\ objs[published[n].ref].status = published[n].file.status
          /\ objs[published[n].ref].steps = published[n].file.steps
    /\ \A n \in Kept :
          LET now == Deref(objs, arrays, published[n].ref).chunks
              then == Snapshot(n).chunks
          IN  /\ Len(now) = Len(then)
              /\ \A k \in DOMAIN then :
                    /\ now[k].embedding = then[k].embedding
                    /\ now[k].embeddingStatus = then[k].embeddingStatus
                    /\ now[k].storageStatus = then[k].storageStatus

\* C13: under any sequence of drops, Process and Clear All clicks interleaved
\* with running invocations, processFile is never invoked twice for the same
\* job id, and never has two invocations in flight for one job.
C13_NeverInvokedTwice ==
    \A n, k \in DOMAIN invocations : invocations[n].id = invocations[k].id => n = k

\* the chunks processFile has made of cleanedText, once the chunking step ran
Chunked_ == pc \notin {"idle", "extract", "clean", "chunk"} /\ cleanedText.tag = "string"

TheChunks == arrays[objs[cur].chunks]

Stride == CHUNK_SIZE - CHUNK_OVERLAP

\* C14: the k-th chunk (zero-based) of a cleaned text of length L is
\* text[k*(S-O) : min(k*(S-O)+S, L)], and there is a chunk for every k with
\* k*(S-O) < L and for no other; a text of 2500 characters gives 4 chunks,
\* starting at 0, 800, 1600 and 2400, the last of 100 characters.
C14_ChunksAreTheWindows ==
    Chunked_ =>
        LET text == cleanedText.val
            L == Length(text)
        IN  /\ \A k \in 0..(Len(TheChunks) - 1) :
                  /\ k * Stride < L
                  /\ TheChunks[k + 1].text =
                        Slice(text, k * Stride, Min(k * Stride + CHUNK_SIZE, L))
            /\ \A k \in 0..L : k * Stride < L => k + 1 \in DOMAIN TheChunks
            /\ L = 2500 =>
                  /\ Len(TheChunks) = 4
                  /\ TheChunks[1].text = Slice(text, 0, 1000)
                  /\ TheChunks[2].text = Slice(text, 800, 1800)
                  /\ TheChunks[3].text = Slice(text, 1600, 2500)
                  /\ TheChunks[4].text = Slice(text, 2400, 2500)
                  /\ Length(TheChunks[4].text) = 100

C14_Witness ==
    /\ Chunked_
    /\ Length(cleanedText.val) = 2500
    /\ Len(TheChunks) = 4
    /\ TheChunks[4].text = <<Run("Y", 100)>>

\* the least integer not below a / b (a >= 0, b > 0)
CeilDiv(a, b) == (a + b - 1) \div b

\* C15 as stated: a text of length L gives ceil(max(L - O, 1) / (S - O)) chunks.
C15_AsStated ==
    Chunked_ =>
        Len(TheChunks) = CeilDiv(Max(Length(cleanedText.val) - CHUNK_OVERLAP, 1), Stride)

\* C15, amended: a text of length L gives ceil(L / (S - O)) chunks.
C15_ChunkCount ==
    Chunked_ => Len(TheChunks) = CeilDiv(Length(cleanedText.val), Stride)

\* 801 characters: two chunks, the second of one character
C15_Witness ==
    /\ Chunked_
    /\ Length(cleanedText.val) = Stride + 1
    /\ Len(TheChunks) = 2
    /\ Length(TheChunks[2].text) = 1

\* the last n characters of a are the first n characters of b
Shares(a, b, n) ==
    /\ Length(a) >= n
    /\ Length(b) >= n
    /\ Slice(a, Length(a) - n, Length(a)) = Slice(b, 0, n)

SharesExactly(a, b, n) == Shares(a, b, n) /\ ~Shares(a, b, n + 1)

\* C16 as stated: every chunk except the last has exactly CHUNK_SIZE
\* characters, and consecutive chunks share exactly CHUNK_OVERLAP characters
\* unless the later one is the last.
C16_AsStated ==
    Chunked_ =>
        LET n == Len(TheChunks)
        IN  /\ \A k \in 1..(n - 1) : Length(TheChunks[k].text) = CHUNK_SIZE
            /\ \A k \in 1..(n - 2) :
                  SharesExactly(TheChunks[k].text, TheChunks[k + 1].text, CHUNK_OVERLAP)

\* C16, amended: no chunk is longer than CHUNK_SIZE; every chunk before the
\* last two has exactly CHUNK_SIZE characters; the chunk before the last is
\* shorter only when the last chunk is shorter than CHUNK_OVERLAP; and
\* consecutive chunks share exactly CHUNK_OVERLAP characters unless the later
\* one is the last.
C16_OnlyLastTwoShorter ==
    Chunked_ =>
        LET n == Len(TheChunks)
        IN  /\ \A k \in 1..n : Length(TheChunks[k].text) <= CHUNK_SIZE
            /\ \A k \in 1..(n - 2) : Length(TheChunks[k].text) = CHUNK_SIZE
            /\ n >= 2 =>
                  \/ Length(TheChunks[n - 1].text) = CHUNK_SIZE
                  \/ Length(TheChunks[n].text) < CHUNK_OVERLAP
            /\ \A k \in 1..(n - 2) :
                  SharesExactly(TheChunks[k].text, TheChunks[k + 1].text, CHUNK_OVERLAP)

\* three chunks, the second cut short by the end of the text
C16_Witness ==
    /\ Chunked_
    /\ Len(TheChunks) = 3
    /\ Length(TheChunks[1].text) = CHUNK_SIZE
    /\ Length(TheChunks[2].text) < CHUNK_SIZE
    /\ Length(TheChunks[3].text) < CHUNK_OVERLAP

\* C17: an empty cleaned text gives no chunks and no failure of its own: the
\* Chunk Text step is completed (and stays so), no upsert is ever issued, the
\* only errors that can follow are those of the configuration and of the
\* cluster, and without them the job ends completed.  A cleaned text that is
\* not empty gives at least one chunk, and none of its chunks is empty.
C17_EmptyTextGivesNoChunks ==
    Chunked_ =>
        LET last == published[Len(published)].file
        IN  /\ Length(cleanedText.val) = 0 =>
                  /\ Len(TheChunks) = 0
                  /\ StepStatus(last, 3) = "completed"
                  /\ \A c \in DOMAIN calls : calls[c].op # "upsert"
                  /\ thrown.caught =>
                        thrown.error \in {ConfigurationError, ClientConfigError}
                                         \cup ClientFailures
                  /\ (pc = "done" /\ ~thrown.caught) =>
                        /\ last.status = "completed"
                        /\ \A k \in 1..5 : StepStatus(last, k) = "completed"
            /\ Length(cleanedText.val) > 0 =>
                  /\ Len(TheChunks) >= 1
                  /\ \A k \in DOMAIN TheChunks : Length(TheChunks[k].text) > 0

\* a text of whitespace only is cleaned to the empty text, and the job completes
C17_Witness ==
    /\ pc = "done"
    /\ extractedText.tag = "string"
    /\ extractedText.val # <<>>
    /\ cleanedText.val = <<>>
    /\ published[Len(published)].file.status = "completed"
    /\ TheChunks = <<>>
    /\ \E c \in DOMAIN calls : calls[c].op = "createCollection"

\* C18: the k-th chunk (zero-based) has the id made of the job id and k, and
\* chunkIndex k + 1; the ids of a job's chunks are pairwise distinct; and the
\* sequence of ids is determined by the job id and the text's length alone.
C18_ChunkIdsFromJobAndPosition ==
    Chunked_ =>
        /\ \A k \in 0..(Len(TheChunks) - 1) :
              /\ TheChunks[k + 1].id = ChunkId(objs[cur].id, k)
              /\ TheChunks[k + 1].fileId = objs[cur].id
              /\ TheChunks[k + 1].chunkIndex = k + 1
        /\ \A k, l \in DOMAIN TheChunks : TheChunks[k].id = TheChunks[l].id => k = l
        /\ [k \in DOMAIN TheChunks |-> TheChunks[k].id] =
              [k \in 1..CeilDiv(Length(cleanedText.val), Stride) |->
                  ChunkId(objs[1].id, k - 1)]

C18_Witness ==
    /\ Chunked_
    /\ Len(TheChunks) = 3
    /\ TheChunks[3].id = ChunkId(JobId("a.pdf", 0, 0), 2)
    /\ TheChunks[3].chunkIndex = 3

\* the chunks of the array with embeddingStatus completed
EmbeddedIn(chunks) == {k \in DOMAIN chunks : chunks[k].embeddingStatus = "completed"}

\* C19: in every snapshot the chunks with embeddingStatus completed are the
\* first m chunks for some m, each with its embedding; from one onUpdate call
\* to the next m does not decrease and grows by at most one; and the objects
\* published so far, read now, show a prefix too.
C19_EmbeddedInSequence ==
    /\ \A n \in Kept :
          LET chunks == Snapshot(n).chunks
              m == Cardinality(EmbeddedIn(chunks))
          IN  /\ EmbeddedIn(chunks) = 1..m
              /\ \A k \in DOMAIN chunks : chunks[k].embedding.present <=> k <= m
              /\ n > FirstKept =>
                    LET before == Cardinality(EmbeddedIn(Snapshot(n - 1).chunks))
                    IN  before <= m /\ m <= before + 1
    /\ \A n \in DOMAIN published :
          LET chunks == Deref(objs, arrays, published[n].ref).chunks
          IN  EmbeddedIn(chunks) = 1..Cardinality(EmbeddedIn(chunks))

\* the second of five chunks has just been embedded
C19_Witness ==
    /\ pc = "embed"
    /\ Len(seenChunks) = 2
    /\ Len(LastSnapshot.chunks) = 5
    /\ EmbeddedIn(LastSnapshot.chunks) = {1, 2}
    /\ EmbeddedIn(Snapshot(Len(published) - 1).chunks) = {1}
    /\ StepStatus(LastSnapshot, 4) = "in-progress"

\* the upserts issued so far, in order
Upserts == SelectSeq(calls, LAMBDA c : c.op = "upsert")

\* the chunks of the array with storageStatus completed
StoredIn(chunks) == {k \in DOMAIN chunks : chunks[k].storageStatus = "completed"}

\* the chunks whose points the cluster holds
Persisted(chunks) ==
    {k \in DOMAIN chunks :
        /\ config.collectionName \in DOMAIN store
        /\ chunks[k].id \in DOMAIN store[config.collectionName]}

\* C20: the b-th upsert carries the ids of chunks 100(b-1)+1 .. min(100b, n) in
\* chunk order; a job that completes has issued ceil(n / 100) upserts, which
\* together carry every chunk once; in every snapshot a chunk with
\* storageStatus completed is one the cluster has acknowledged, the latest
\* snapshot showing exactly the acknowledged chunks; and from one onUpdate call
\* to the next the stored chunks stay or grow by the next batch.
C20_BatchesOfHundred ==
    Chunked_ =>
        LET n == Len(TheChunks)
        IN  /\ \A b \in DOMAIN Upserts :
                  Upserts[b].ids =
                      [k \in 1..Min(BATCH_SIZE, n - BATCH_SIZE * (b - 1)) |->
                          TheChunks[BATCH_SIZE * (b - 1) + k].id]
            /\ Len(Upserts) <= CeilDiv(n, BATCH_SIZE)
            /\ (pc = "done" /\ ~thrown.caught) => Len(Upserts) = CeilDiv(n, BATCH_SIZE)
            /\ \A s \in Kept : StoredIn(Snapshot(s).chunks) \subseteq Persisted(TheChunks)
            /\ StoredIn(LastSnapshot.chunks) = Persisted(TheChunks)
            /\ \A s \in Kept : s > FirstKept =>
                  LET before == StoredIn(Snapshot(s - 1).chunks)
                      after == StoredIn(Snapshot(s).chunks)
                  IN  \/ after = before
                      \/ after = 1..Min(n, Cardinality(before) + BATCH_SIZE)

\* the first batch of 100 is acknowledged and published, the second, of one
\* point, is on its way
C20_Witness ==
    /\ pc = "upsert"
    /\ Len(points) = BATCH_SIZE + 1
    /\ Len(Upserts) = 2
    /\ Len(Upserts[1].ids) = BATCH_SIZE
    /\ Len(Upserts[2].ids) = 1
    /\ StoredIn(LastSnapshot.chunks) = 1..BATCH_SIZE

\* C21: the calls to the cluster are one getCollections, then one
\* createCollection only when the target collection is not there, then the
\* upserts; while getCollections or createCollection is awaited nothing else
\* has been issued, and an upsert is issued only with the collection there.
C21_ListThenCreateThenUpsert ==
    /\ calls # <<>> => calls[1].op = "getCollections"
    /\ \A c \in 2..Len(calls) :
          /\ calls[c].op \in {"createCollection", "upsert"}
          /\ calls[c].op = "createCollection" => c = 2
    /\ \A c \in DOMAIN calls : calls[c].collection = config.collectionName
    /\ pc = "getCollections" => Len(calls) = 1
    /\ pc = "createCollection" =>
          /\ Len(calls) = 2
          /\ calls[2].op = "createCollection"
          /\ config.collectionName \notin DOMAIN store
    /\ (\E c \in DOMAIN calls : calls[c].op = "upsert") =>
          config.collectionName \in DOMAIN store

\* the collection was created and both batches went out after it
C21_Witness ==
    /\ Len(calls) = 4
    /\ calls[2].op = "createCollection"
    /\ calls[3].op = "upsert"
    /\ calls[4].op = "upsert"
    /\ pc = "done"

\* the calls of the r-th invocation for the job: from its getCollections to
\* the next one
CallsOfRun(r) ==
    LET starts == {c \in DOMAIN calls : calls[c].op = "getCollections"}
        before(c) == Cardinality({d \in starts : d <= c})
    IN  SelectSeq([c \in DOMAIN calls |-> [call |-> calls[c], run |-> before(c)]],
                  LAMBDA e : e.run = r)

UpsertIdsOfRun(r) ==
    LET ups == SelectSeq(CallsOfRun(r), LAMBDA e : e.call.op = "upsert")
    IN  [b \in DOMAIN ups |-> ups[b].call.ids]

\* C22: when the job is stored a second time with the same chunks into the
\* same collection, the b-th upsert of the second run carries the ids the b-th
\* upsert of the first carried; the collection never holds a point under an id
\* that is not a chunk's, each point held carries its chunk's text; and after
\* each run that completes the collection holds one point for every chunk id,
\* the same set after the second run as after the first.
C22_RerunUpsertsSameIds ==
    LET n == Len(TheChunks)
        ids == {TheChunks[k].id : k \in 1..n}
        held == IF config.collectionName \in DOMAIN store
                THEN store[config.collectionName] ELSE <<>>
    IN  /\ \A b \in DOMAIN UpsertIdsOfRun(1) \cap DOMAIN UpsertIdsOfRun(2) :
              UpsertIdsOfRun(2)[b] = UpsertIdsOfRun(1)[b]
        /\ pc \in {"getCollections", "createCollection", "upsert", "done"} =>
              /\ DOMAIN held \subseteq ids
              /\ \A k \in 1..n :
                    TheChunks[k].id \in DOMAIN held =>
                        /\ held[TheChunks[k].id].payload.text = TheChunks[k].text
                        /\ \A l \in 1..n : TheChunks[l].id = TheChunks[k].id => l = k
        /\ (pc = "done" /\ ~thrown.caught) =>
              /\ DOMAIN held = ids
              /\ Cardinality(DOMAIN held) = n

C22_Witness ==
    /\ StorageRuns = 2
    /\ pc = "done"
    /\ ~thrown.caught
    /\ Len(TheChunks) = BATCH_SIZE + 1
    /\ Len(UpsertIdsOfRun(1)) = 2
    /\ Len(UpsertIdsOfRun(2)) = 2
    /\ Cardinality(DOMAIN store[config.collectionName]) = BATCH_SIZE + 1

\* C23: in every onUpdate call of an invocation whose job came in without an
\* error, the object passed has its error field set exactly when its status is
\* failed, as it was at the call and as the object is read afterwards.
C23_ErrorIffFailed ==
    \A n \in DOMAIN published :
        /\ published[n].file.error.present <=> published[n].file.status = "failed"
        /\ objs[published[n].ref].error.present <=> objs[published[n].ref].status = "failed"

C23_Witness ==
    /\ Len(published) >= 3
    /\ ~published[1].file.error.present
    /\ published[1].file.status = "in-progress"
    /\ published[Len(published)].file.status = "failed"
    /\ published[Len(published)].file.error.present
    /\ ~objs[1].error.present

\* what of a chunk list the chunking fixes: the chunks in order, each with its
\* id, its number and its text
ChunkIdentities(chunks) ==
    [k \in DOMAIN chunks |->
        [id |-> chunks[k].id, chunkIndex |-> chunks[k].chunkIndex, text |-> chunks[k].text]]

\* C24: an object passed to onUpdate has no chunks while its Chunk Text step is
\* not completed; every object passed with Chunk Text completed has the chunks
\* the job has now, in number, order, ids and texts, so that no later call
\* shows other chunks than an earlier one; and a chunk list read after the
\* call shows the chunks it showed at the call.
C24_ChunksFixedOnceReported ==
    /\ \A n \in DOMAIN published :
          LET file == published[n].file
          IN  IF StepStatus(file, 3) # "completed"
              THEN arrays[file.chunks] = <<>>
              ELSE ChunkIdentities(arrays[file.chunks]) = ChunkIdentities(TheChunks)
    /\ \A n \in Kept :
          ChunkIdentities(Snapshot(n).chunks) = ChunkIdentities(arrays[published[n].file.chunks])

C24_Witness ==
    /\ pc = "done"
    /\ Len(TheChunks) = 4
    /\ \E n \in DOMAIN published :
          /\ StepStatus(published[n].file, 3) = "in-progress"
          /\ StepStatus(published[n + 1].file, 3) = "completed"
          /\ Len(arrays[published[n].file.chunks]) = 0
          /\ Len(arrays[published[n + 1].file.chunks]) = 4
    /\ Len(LastSnapshot.chunks) = 4
    /\ LastSnapshot.chunks[4].embeddingStatus = "completed"

\* C25: an object passed to onUpdate has a string for extractedText exactly
\* when its Extract Text step is completed and a string for cleanedText
\* exactly when its Clean Text step is completed; a text an object carries is
\* carried unchanged by the object of the next call, hence by every later one,
\* and reads the same after the call.
C25_TextsWithTheirSteps ==
    \A n \in DOMAIN published :
        LET file == published[n].file
        IN  /\ file.extractedText.tag = "string" <=> StepStatus(file, 1) = "completed"
            /\ file.cleanedText.tag = "string" <=> StepStatus(file, 2) = "completed"
            /\ objs[published[n].ref].extractedText = file.extractedText
            /\ objs[published[n].ref].cleanedText = file.cleanedText
            /\ n < Len(published) =>
                  /\ file.extractedText.tag = "string" =>
                        published[n + 1].file.extractedText = file.extractedText
                  /\ file.cleanedText.tag = "string" =>
                        published[n + 1].file.cleanedText = file.cleanedText

C25_Witness ==
    /\ pc = "done"
    /\ thrown.caught
    /\ published[1].file.extractedText.tag = "null"
    /\ \E n \in DOMAIN published :
          /\ published[n].file.extractedText.tag = "string"
          /\ published[n].file.cleanedText.tag = "null"
    /\ LastSnapshot.cleanedText.tag = "string"
    /\ Length(LastSnapshot.cleanedText.val) < Length(LastSnapshot.extractedText.val)
    /\ LastSnapshot.status = "failed"

\* C26: of the objects passed to onUpdate in one invocation, as they are at
\* the call, none has status pending; all but the latest have status
\* in-progress; the latest has status in-progress while the invocation runs
\* and completed or failed once it has ended, so that no in-progress follows a
\* terminal status.
C26_InProgressUntilTheLast ==
    /\ \A n \in DOMAIN published :
          /\ published[n].file.status # "pending"
          /\ n < Len(published) => published[n].file.status = "in-progress"
    /\ published # <<>> =>
          IF pc = "done"
          THEN published[Len(published)].file.status \in {"completed", "failed"}
          ELSE published[Len(published)].file.status = "in-progress"

C26_Witness ==
    /\ pc = "done"
    /\ Len(published) > 10
    /\ published[Len(published)].file.status = "completed"
    /\ published[Len(published) - 1].file.status = "in-progress"
    /\ StepStatus(published[Len(published) - 1].file, 5) = "completed"

\* the ids a call carries
IdsOf(call) == {call.ids[k] : k \in DOMAIN call.ids}

\* C27: within one invocation the extraction answers once and is not asked
\* again; a pass of the embedding loop moves on to the next chunk, and the
\* objects published with Generate Embeddings in-progress are one more than
\* the chunks at most; there is at most one getCollections and one
\* createCollection, and no two upserts carry a common point id; and a step
\* shown completed or failed is shown with the same status in every later
\* call.
C27_NothingRetried ==
    /\ [](/\ Cardinality({c \in DOMAIN calls : calls[c].op = "getCollections"}) <= 1
          /\ Cardinality({c \in DOMAIN calls : calls[c].op = "createCollection"}) <= 1
          /\ \A b, c \in DOMAIN Upserts :
                b # c => IdsOf(Upserts[b]) \cap IdsOf(Upserts[c]) = {}
          /\ Cardinality({n \in DOMAIN published :
                             StepStatus(published[n].file, 4) = "in-progress"})
                <= 1 + Len(TheChunks)
          /\ Cardinality({n \in DOMAIN published :
                             StepStatus(published[n].file, 1) = "in-progress"}) <= 1
          /\ \A n \in 1..(Len(published) - 1) : \A k \in 1..5 :
                StepStatus(published[n].file, k) \in {"completed", "failed"} =>
                    StepStatus(published[n + 1].file, k) = StepStatus(published[n].file, k))
    /\ [][/\ backend # "none" => (backend' = backend /\ pc' # "extract")
          /\ (pc = "embed" /\ ~thrown'.caught) => j' = j + 1
          /\ pc = "upsert" => (pc' = "done" \/ i' = i + BATCH_SIZE)]_vars

C27_Witness ==
    /\ pc = "done"
    /\ ~thrown.caught
    /\ backend = "text"
    /\ Len(TheChunks) = BATCH_SIZE + 1
    /\ Len(Upserts) = 2
    /\ Cardinality({n \in DOMAIN published :
                       StepStatus(published[n].file, 4) = "in-progress"}) = BATCH_SIZE + 2

\* C28: for every call updateStepStatus(job, name, status, detail), the job
\* returned has the steps of the job passed, as many and under the same names
\* in the same order; a step whose name is `name` has the status and detail
\* passed, every other step is as it was; every field of the job but the steps
\* is as it was; and the job passed still reads as it did at the call.
C28_OnlyTheNamedStepChanges ==
    \A c \in DOMAIN calls :
        calls[c].op = "updateStepStatus" =>
            LET passed == calls[c].file
                returned == objs[c + 1]
            IN  /\ DOMAIN returned = DOMAIN passed
                /\ \A field \in DOMAIN passed \ {"steps"} : returned[field] = passed[field]
                /\ Len(returned.steps) = Len(passed.steps)
                /\ \A k \in DOMAIN passed.steps :
                      /\ returned.steps[k].name = passed.steps[k].name
                      /\ IF passed.steps[k].name = calls[c].stepName
                         THEN /\ returned.steps[k].status = calls[c].status
                              /\ returned.steps[k].details = calls[c].details
                         ELSE returned.steps[k] = passed.steps[k]
                /\ objs[c] = passed

C28_Witness ==
    /\ Len(calls) = 2
    /\ calls[1].op = "updateStepStatus"
    /\ calls[1].stepName = "Extract Text"
    /\ calls[1].status = "completed"
    /\ calls[1].file.status = "in-progress"
    /\ calls[2].stepName = "Review"
    /\ objs[2] # objs[1]
    /\ objs[3] = objs[2]

\* C29: when the catch block is entered with a job none of whose steps is
\* in-progress, the object it publishes has status failed and the error's
\* message (the fixed message for a value that is no Error), its steps are
\* the job's steps at that time, none marked failed by the handler, and its
\* other fields are the job's.
C29_HandlerWithoutStepInProgress ==
    (thrown.caught /\ StepsWith(objs[cur], "in-progress") = {}) =>
        LET atError == objs[cur]
            final == published[Len(published)].file
        IN  /\ Len(published) = thrown.publishedBefore + 1
            /\ final.status = "failed"
            /\ final.error.present
            /\ final.error.value =
                  IF thrown.error.isError THEN thrown.error.message
                  ELSE Str("An unknown error occurred.", 0, "")
            /\ final.steps = atError.steps
            /\ StepsWith(final, "failed") = StepsWith(atError, "failed")
            /\ \A field \in DOMAIN atError \ {"status", "error", "steps"} :
                  final[field] = atError[field]

C29_Witness ==
    /\ thrown.caught
    /\ ~thrown.error.isError
    /\ Len(calls) = 2
    /\ StepsWith(objs[cur], "in-progress") = {}
    /\ StepsWith(objs[cur], "completed") = {1, 2}
    /\ StepsWith(published[Len(published)].file, "pending") = {3, 4, 5}
    /\ published[Len(published)].file.status = "failed"

\* C30: the object published by the catch block carries the extractedText,
\* the cleanedText and the chunks of the job as it stood when the error was
\* thrown, every chunk with its embedding, embeddingStatus and storageStatus;
\* when a call awaited in the embedding or the storage step fails, these are
\* what they were while the call was in flight; and when the upsert at offset
\* i fails, the chunks before i have storageStatus completed and those from i
\* on have it pending.
C30_FailureKeepsTheWork ==
    /\ [](thrown.caught =>
            LET final == LastSnapshot
                atError == Deref(objs, arrays, cur)
            IN  /\ final.status = "failed"
                /\ final.extractedText = atError.extractedText
                /\ final.cleanedText = atError.cleanedText
                /\ final.chunks = atError.chunks)
    /\ [][(/\ thrown'.caught
           /\ \/ pc = "embed" /\ thrown'.error = EmbeddingError
              \/ pc \in {"getCollections", "createCollection", "upsert"})
          => /\ LastSnapshot'.extractedText = extractedText
             /\ LastSnapshot'.cleanedText = cleanedText
             /\ LastSnapshot'.chunks = TheChunks
             /\ pc = "upsert" =>
                   /\ StoredIn(LastSnapshot'.chunks) = 1..i
                   /\ \A k \in (i + 1)..Len(TheChunks) :
                         LastSnapshot'.chunks[k].storageStatus = "pending"]_vars

C30_Witness ==
    /\ thrown.caught
    /\ Len(Upserts) = 2
    /\ Len(LastSnapshot.chunks) = BATCH_SIZE + 1
    /\ StoredIn(LastSnapshot.chunks) = 1..BATCH_SIZE
    /\ LastSnapshot.chunks[BATCH_SIZE + 1].storageStatus = "pending"
    /\ LastSnapshot.chunks[BATCH_SIZE + 1].embeddingStatus = "completed"
    /\ LastSnapshot.cleanedText.tag = "string"
    /\ StepStatus(LastSnapshot, 5) = "failed"

\* the ids of the invocations that took a step: those begun and those moved on
Publishing ==
    {invocations'[n].id : n \in {m \in DOMAIN invocations' :
                                    m \notin DOMAIN invocations
                                    \/ invocations'[m] # invocations[m]}}

\* C31: a step in which invocations publish (one begins, moves on or ends)
\* leaves the file list as long as it was, with the same ids in the same
\* order, and changes no entry but those under the id of an invocation that
\* published in the step, however the invocations of different jobs
\* interleave.
C31_PublishTouchesOnlyItsJob ==
    [][invocations' # invocations =>
          /\ Len(files') = Len(files)
          /\ \A k \in DOMAIN files :
                /\ files'[k].id = files[k].id
                /\ files'[k] # files[k] => files[k].id \in Publishing]_vars

C31_Witness ==
    \E n, m \in DOMAIN invocations :
        /\ invocations[n].id # invocations[m].id
        /\ invocations[n].run # invocations[m].run
        /\ invocations[n].pc = "upsert"
        /\ invocations[m].pc = "upsert"
        /\ \E k, l \in DOMAIN files :
              /\ k < l
              /\ files[k] = [id |-> invocations[n].id, status |-> "in-progress"]
              /\ files[l] = [id |-> invocations[m].id, status |-> "in-progress"]

\* the runs of a text that are not whitespace, in order
Words(t) == SelectSeq(t, LAMBDA r : r.ch \notin Whitespace)

\* the stretches of whitespace of a text that lie between two characters that
\* are not whitespace, each counted where it ends
InnerGaps(t) ==
    {k \in 2..Len(t) :
        /\ t[k].ch \notin Whitespace
        /\ t[k - 1].ch \in Whitespace
        /\ \E l \in 1..(k - 1) : t[l].ch \notin Whitespace}

\* C32: the cleaned text neither begins nor ends with whitespace; each of its
\* whitespace characters is one space between two characters that are not
\* whitespace; it has the extracted text's other characters in their order
\* and one space for every stretch of whitespace between two of them; and
\* cleaning it again gives it back.
C32_CleanedIsNormalAndStable ==
    cleanedText.tag = "string" =>
        LET c == cleanedText.val
            e == extractedText.val
        IN  /\ c # <<>> => (c[1].ch \notin Whitespace /\ c[Len(c)].ch \notin Whitespace)
            /\ \A k \in DOMAIN c :
                  c[k].ch \in Whitespace =>
                      /\ c[k] = Run(" ", 1)
                      /\ k > 1 /\ c[k - 1].ch \notin Whitespace
                      /\ k < Len(c) /\ c[k + 1].ch \notin Whitespace
            /\ Words(c) = Words(e)
            /\ Cardinality({k \in DOMAIN c : c[k].ch \in Whitespace}) =
                  Cardinality(InnerGaps(e))
            /\ CleanText(c) = c

C32_Witness ==
    /\ cleanedText = StringText(<<Run("a", 2), Run(" ", 1), Run("b", 1)>>)
    /\ extractedText.val[1] = Run("\n", 2)
    /\ Length(extractedText.val) = 2 + 2 + 2 + 1 + 1 + 2

\* the handleProcessAll loops that have not reached line 57
RunningLoops == {r \in DOMAIN runs : runs[r].running}

\* the processFile invocations that have not returned
InFlight == {n \in DOMAIN invocations : invocations[n].pc # "settled"}

\* C33: at most one handleProcessAll loop is running at a time, and
\* isProcessing is true whenever a processFile invocation is in flight.
C33_IsProcessingGuards ==
    /\ Cardinality(RunningLoops) <= 1
    /\ InFlight # {} => isProcessing

\* C34: across the processFile invocations that run against one cluster,
\* concurrent ones included, createCollection is issued at most once for the
\* target collection, and never once the cluster has it.
C34_CreateIssuedOnce ==
    /\ Cardinality({c \in DOMAIN calls : calls[c].op = "createCollection"}) <= 1
    /\ \A n \in DOMAIN invocations :
          invocations[n].pc = "createCollection" => config.collectionName \notin DOMAIN store

\* the ids of the jobs of the driver's list
ListedIds == {files[k].id : k \in DOMAIN files}

\* C35: the selected file is null or a job whose id is in the file list, in
\* every state of the driver, those after Clear All with an invocation still
\* publishing included.
C35_SelectedIsListed ==
    selectedFile # <<>> => selectedFile[1].id \in ListedIds

\* C36: a step in which invocations publish leaves the set of ids of the file
\* list as it was; a job that Clear All has taken off the list is not put
\* back by the snapshots its invocation goes on to publish.
C36_PublishNeverAddsAJob ==
    [][invocations' # invocations => ListedIds' = ListedIds]_vars

C36_Witness ==
    /\ files = <<>>
    /\ selectedFile # <<>>
    /\ \E n \in DOMAIN invocations :
          /\ invocations[n].id = selectedFile[1].id
          /\ invocations[n].pc = "settled"
    /\ selectedFile[1].status = "completed"

\* C37: the job passed to processFile reads, during the invocation and after
\* it, completed or failed, as the driver made it: status pending, the five
\* steps pending without details, no chunks, no texts, no error.
C37_InputJobUntouched ==
    LET input == Deref(objs, arrays, 1)
    IN  /\ input.status = "pending"
        /\ input.steps = [k \in 1..5 |-> [name |-> StepNames[k], status |-> "pending",
                                          details |-> Absent]]
        /\ input.chunks = <<>>
        /\ input.extractedText = NullText
        /\ input.cleanedText = NullText
        /\ input.error = Absent
        /\ \E name \in FileNames : objs[1] = NewProcessedFile(FileOf(name), 0, 0, 1)

C37_Witness ==
    /\ pc = "done"
    /\ ~thrown.caught
    /\ Len(TheChunks) = BATCH_SIZE + 1
    /\ LastSnapshot.status = "completed"
    /\ LastSnapshot.id = objs[1].id
    /\ objs[1].status = "pending"
    /\ arrays[objs[1].chunks] = <<>>

\* the invocations of run r, in the order they were begun
RunInvocations(r) == SelectSeq(invocations, LAMBDA v : v.run = r)

\* how far an invocation is from returning
StepsLeft(v) ==
    CASE v.pc = "working" -> 3
      [] v.pc = "createCollection" -> 2
      [] v.pc = "upsert" -> 1
      [] OTHER -> 0

\* C38: a handleProcessAll run takes the files that were pending at its click;
\* it calls processFile for them in list order, for the next only when the
\* one before has returned, its terminal snapshot published, whether it
\* completed or failed; the entry of a job whose invocation returns shows
\* completed or failed; every step of an invocation brings it nearer to
\* returning, so a run whose calls are all answered ends; and a run that has
\* ended has gone through all its files and set isProcessing to false.
C38_RunGoesThroughItsFiles ==
    /\ [](\A r \in DOMAIN runs :
             LET invs == RunInvocations(r)
                 pendingFiles == runs[r].pendingFiles
             IN  /\ pendingFiles # <<>>
                 /\ \A k \in DOMAIN pendingFiles : pendingFiles[k].status = "pending"
                 /\ Len(invs) <= Len(pendingFiles)
                 /\ \A k \in DOMAIN invs : invs[k].id = pendingFiles[k].id
                 /\ \A k \in 1..(Len(invs) - 1) : invs[k].pc = "settled"
                 /\ IF runs[r].running
                    THEN invs # <<>> /\ invs[Len(invs)].pc # "settled"
                    ELSE /\ Len(invs) = Len(pendingFiles)
                         /\ \A k \in DOMAIN invs : invs[k].pc = "settled")
    /\ [][/\ Len(runs') > Len(runs) =>
                /\ runs'[Len(runs')].pendingFiles =
                      SelectSeq(files, LAMBDA f : f.status = "pending")
                /\ isProcessing'
          /\ \A r \in DOMAIN runs :
                (runs[r].running /\ ~runs'[r].running) => ~isProcessing'
          /\ \A n \in DOMAIN invocations :
                /\ invocations'[n] # invocations[n] =>
                      StepsLeft(invocations'[n]) < StepsLeft(invocations[n])
                /\ (invocations[n].pc # "settled" /\ invocations'[n].pc = "settled") =>
                      \A k \in DOMAIN files' :
                          files'[k].id = invocations[n].id =>
                              files'[k].status \in {"completed", "failed"}]_vars

C38_Witness ==
    /\ Len(runs) = 1
    /\ ~runs[1].running
    /\ Len(runs[1].pendingFiles) = 2
    /\ Len(files) = 2
    /\ files[1].status = "failed"
    /\ files[2].status = "completed"
    /\ ~isProcessing

====
